---- MODULE Spec2Model ----
(***************************************************************************)
(* Model of the data synchronisation and identifier-assignment layer of    *)
(* Compusys Point: the online Sync Gateway (databaseService), the Local    *)
(* Mirror (storageService), the relational store they talk to (the tables  *)
(* of SQL_SETUP_SCRIPT), the client configuration of supabase.ts and the   *)
(* bill total of RepairBill.                                               *)
(*                                                                         *)
(* Conventions.  A JavaScript object is a function from its keys to their  *)
(* values; a key that is absent or undefined is not in the DOMAIN.  A      *)
(* nullable store column holds a sequence of length <= 1: << >> is NULL    *)
(* and <<v>> is the value v.  Text that the code builds or takes apart     *)
(* (identifiers) is a sequence of one-character strings.  Timestamps are   *)
(* natural numbers read from a clock.                                      *)
(***************************************************************************)
EXTENDS Integers, Sequences, FiniteSets, TLC

\* ---------------------------------------------------------------- bounds
MaxAdds == 2        \* successful online adds per entity kind
MaxLocalAdds == 4   \* Local Mirror adds, of both entity kinds together
MaxCount == 60      \* row counts tried on the online allocator
MaxUpdFields == 2   \* fields present in one partial update
MaxServices == 2    \* service items on a bill
MaxPairAdds == 3    \* adds given to both backends, of both kinds together
MaxWords == 3       \* words of an error message given to the Schema Guard
MaxTasks == 2       \* asynchronous calls made in one behaviour
MaxIdSpan == 6      \* stored Local Mirror numbers run from 1000 to 1000 + this
MaxFetches == 1        \* fetchAppState calls followed read by read

\* ------------------------------------------------------- program constants
ID_START_BASE == 1000
StorageIdStartBase == 1000

None == << >>
Some(v) == <<v>>

Has(o, k) == k \in DOMAIN o

Put(o, k, v) == [x \in (DOMAIN o) \cup {k} |-> IF x = k THEN v ELSE o[x]]

PutIfDefined(o, k, src, f) == IF Has(src, f) THEN Put(o, k, src[f]) ELSE o

EmptyObject == [x \in {} |-> None]

Range(seq) == {seq[i] : i \in 1..Len(seq)}

\* ------------------------------------------------------------ text helpers
DigitChars == <<"0", "1", "2", "3", "4", "5", "6", "7", "8", "9">>

IsDigit(ch) == \E i \in 1..10 : DigitChars[i] = ch

DigitValue(ch) == (CHOOSE i \in 1..10 : DigitChars[i] = ch) - 1

\* Number.prototype.toString() of a non-negative integer
RECURSIVE NumToString(_)
NumToString(n) ==
  IF n < 10 THEN <<DigitChars[n + 1]>>
  ELSE NumToString(n \div 10) \o <<DigitChars[(n % 10) + 1]>>

\* String.prototype.padStart(len, ch) with a one-character filler
RECURSIVE PadStart(_, _, _)
PadStart(s, len, ch) ==
  IF Len(s) >= len THEN s ELSE PadStart(<<ch>> \o s, len, ch)

\* a slip: padStart(5, '0')
FormatIdPadFive(prefix, num) == <<prefix, "-">> \o PadStart(NumToString(num), 5, "0")

\* the template literal `${prefix}-${num.toString().padStart(6, '0')}`
FormatId(prefix, num) == <<prefix, "-">> \o PadStart(NumToString(num), 6, "0")

\* String.prototype.split('-'): the segments between the hyphens
RECURSIVE SplitDash(_)
SplitDash(s) ==
  IF \A i \in 1..Len(s) : s[i] # "-" THEN <<s>>
  ELSE LET k == CHOOSE i \in 1..Len(s) :
                  s[i] = "-" /\ \A j \in 1..(i - 1) : s[j] # "-"
       IN <<SubSeq(s, 1, k - 1)>> \o SplitDash(SubSeq(s, k + 1, Len(s)))

\* parseInt(text): the value of the longest prefix of decimal digits; NaN is
\* the value -1 (no identifier number is negative)
NaN == -1

RECURSIVE DigitsValue(_, _)
DigitsValue(s, acc) ==
  IF s = << >> \/ ~IsDigit(Head(s)) THEN acc
  ELSE DigitsValue(Tail(s), acc * 10 + DigitValue(Head(s)))

ParseInt(s) == IF s = << >> \/ ~IsDigit(Head(s)) THEN NaN ELSE DigitsValue(s, 0)

\* parseInt(id.split('-')[1]); parseInt(undefined) is NaN
IdNumber(id) ==
  LET parts == SplitDash(id)
  IN IF Len(parts) >= 2 THEN ParseInt(parts[2]) ELSE NaN

\* Date.prototype.toISOString(): the text of a clock reading; the empty text
\* is << >>
ToISOString(t) == <<"T">> \o NumToString(t)

\* ------------------------------------------------------------ store errors
NetworkError == [code |-> "", message |-> <<"TypeError:", "Failed", "to", "fetch">>]

TableMissingError ==
  [code |-> "PGRST205",
   message |-> <<"Could", "not", "find", "the", "table", "in", "the", "schema", "cache">>]

UniqueViolation ==
  [code |-> "23505",
   message |-> <<"duplicate", "key", "value", "violates", "unique", "constraint">>]

ForeignKeyViolation ==
  [code |-> "23503", message |-> <<"violates", "foreign", "key", "constraint">>]

NotNullViolation ==
  [code |-> "23502", message |-> <<"violates", "not-null", "constraint">>]

\* message.includes(pattern), a message being its words in order: the
\* pattern occurs at some position, scanned from the left
RECURSIVE Includes(_, _)
Includes(text, pattern) ==
  IF Len(text) < Len(pattern) THEN FALSE
  ELSE IF SubSeq(text, 1, Len(pattern)) = pattern THEN TRUE
  ELSE Includes(Tail(text), pattern)

\* a slip: the 'does not exist' test left out
isTableMissingErrorCacheOnly(error) ==
  /\ error # None
  /\ \/ Has(error[1], "code") /\ error[1].code = "PGRST205"
     \/ Has(error[1], "message") /\ Includes(error[1].message, <<"schema", "cache">>)

\* error && (error.code === 'PGRST205' || error.message?.includes('schema
\* cache') || error.message?.includes('does not exist')), as a truth value
isTableMissingError(error) ==
  /\ error # None
  /\ \/ Has(error[1], "code") /\ error[1].code = "PGRST205"
     \/ Has(error[1], "message") /\ Includes(error[1].message, <<"schema", "cache">>)
     \/ Has(error[1], "message")
          /\ Includes(error[1].message, <<"does", "not", "exist">>)

\* PostgreSQL's undefined_table, as PostgREST passes it on
RelationMissingError ==
  [code |-> "42P01",
   message |-> <<"relation", "public.customers", "does", "not", "exist">>]

\* new Error("Database not connected.")
NotConnectedError == [message |-> <<"Database", "not", "connected.">>]

\* what the transport may report for one call, besides the store's own
\* constraint errors: nothing, a network failure, or a missing table
TransportOutcomes == {None, Some(NetworkError), Some(TableMissingError)}

\* ------------------------------------------------------------------ state
VARIABLES
  db,        \* the remote store: [customers, repairs, settings], sets of rows
  clock,     \* what new Date() returns next
  last,      \* the operation that ran last: its arguments, store calls, outcome
  allocC,    \* identifiers returned by successful online Add Customer, in order
  allocR,    \* identifiers returned by successful online Add RepairJob, in order
  ls,        \* localStorage[STORAGE_KEY]: << >> or <<serialized blob>>
  lsAllocC,  \* identifiers returned by Local Mirror addCustomer, in order
  lsAllocR,  \* identifiers returned by Local Mirror addRepair, in order
  probe,     \* a pure function applied to an input: [fn, in, out]
  supabaseUrl,      \* the project URL the bundle was built with
  supabaseAnonKey,  \* the anon key the bundle was built with
  tasks,     \* the asynchronous calls made so far, each with where it stands
  appData    \* the data state of App: the snapshot the page shows

vars == <<db, clock, last, allocC, allocR, ls, lsAllocC, lsAllocR, probe,
          supabaseUrl, supabaseAnonKey, tasks, appData>>

onlineVars == <<db, allocC, allocR>>
localVars == <<ls, lsAllocC, lsAllocR>>
buildVars == <<supabaseUrl, supabaseAnonKey>>

\* ------------------------------------------------- the client: supabase.ts
ConfiguredUrl == "https://dytlmvfelsjspfzrgnxf.supabase.co"
ConfiguredAnonKey == "eyJhbGciOiJIUzI1NiIsInR5cCI6IkpXVCJ9.eyJpc3MiOiJzdXBhYmFzZSIs"
placeholderUrl == "https://placeholder.supabase.co"

\* a slip: the URL alone is looked at
isConfiguredUrlSet == supabaseUrl # ""

\* !!(supabaseUrl && supabaseAnonKey && supabaseUrl !== placeholderUrl)
isConfigured ==
  supabaseUrl # "" /\ supabaseAnonKey # "" /\ supabaseUrl # placeholderUrl

\* what a call of the client may come back with: the client of a bundle that
\* is not configured talks to the placeholder host or carries no key, and no
\* call of it reaches the store
Transports == IF isConfigured THEN TransportOutcomes ELSE {Some(NetworkError)}

\* --------------------------------------------------- the relational store
\* SQL_SETUP_SCRIPT: the columns of each table
TableColumns ==
  [customers |-> {"id", "name", "phone", "alt_phone", "address", "created_at"},
   repairs |-> {"id", "customer_id", "material_details", "services",
                "estimated_time", "status", "received_date", "delivery_date",
                "bill_note", "actual_total_cost"},
   settings |-> {"key", "value"}]

\* PRIMARY KEY and NOT NULL columns of each table
PrimaryKey == [customers |-> "id", repairs |-> "id", settings |-> "key"]

NotNullColumns ==
  [customers |-> {"id", "name", "phone"},
   repairs |-> {"id", "material_details", "services", "status"},
   settings |-> {"key", "value"}]

\* DEFAULT NOW() and DEFAULT '[]'
ColumnDefault(table, col, now) ==
  IF (table = "customers" /\ col = "created_at")
       \/ (table = "repairs" /\ col = "received_date") THEN Some(now)
  ELSE IF table = "repairs" /\ col = "services" THEN Some(<< >>)
  ELSE None

\* the row a JSON payload becomes: keys the payload lacks take the default
RowOfPayload(table, payload, now) ==
  [c \in TableColumns[table] |->
     IF Has(payload, c) THEN Some(payload[c]) ELSE ColumnDefault(table, c, now)]

\* customer_id TEXT REFERENCES public.customers(id)
ForeignKeyOk(customers, repairs) ==
  \A r \in repairs :
    r.customer_id = None \/ \E c \in customers : c.id = r.customer_id

ConstraintError(d, table, rows) ==
  IF \E r \in rows : \E c \in NotNullColumns[table] : r[c] = None
    THEN Some(NotNullViolation)
  ELSE IF \E r1, r2 \in rows :
            r1 # r2 /\ r1[PrimaryKey[table]] = r2[PrimaryKey[table]]
    THEN Some(UniqueViolation)
  ELSE IF ~ForeignKeyOk(IF table = "customers" THEN rows ELSE d.customers,
                        IF table = "repairs" THEN rows ELSE d.repairs)
    THEN Some(ForeignKeyViolation)
  ELSE None

\* one store call: what was asked and what came back
Call(table, verb, eq, body, error, count) ==
  [table |-> table, verb |-> verb, eq |-> eq, body |-> body,
   error |-> error, count |-> count]

\* from(table).select('*', { count: 'exact', head: true })
StoreCount(d, table, transport) ==
  LET n == IF transport = None THEN Some(Cardinality(d[table])) ELSE None
  IN [db |-> d, error |-> transport, count |-> n, data |-> None,
      call |-> Call(table, "count", None, EmptyObject, transport, n)]

\* from(table).insert(payload).select().single()
StoreInsert(d, table, payload, transport, now) ==
  LET row == RowOfPayload(table, payload, now)
      dup == \E r \in d[table] : r[PrimaryKey[table]] = row[PrimaryKey[table]]
      err == IF transport # None THEN transport
             ELSE IF dup THEN Some(UniqueViolation)
             ELSE ConstraintError(d, table, d[table] \cup {row})
  IN [db |-> IF err = None THEN [d EXCEPT ![table] = @ \cup {row}] ELSE d,
      error |-> err, count |-> None,
      data |-> IF err = None THEN Some(row) ELSE None,
      call |-> Call(table, "insert", None, payload, err, None)]

\* from(table).update(payload).eq(col, val)
StoreUpdate(d, table, payload, col, val, transport) ==
  LET Upd(r) == [c \in TableColumns[table] |->
                   IF Has(payload, c) THEN Some(payload[c]) ELSE r[c]]
      rows == {IF r[col] = Some(val) THEN Upd(r) ELSE r : r \in d[table]}
      err == IF transport # None THEN transport
             ELSE ConstraintError(d, table, rows)
  IN [db |-> IF err = None THEN [d EXCEPT ![table] = rows] ELSE d,
      error |-> err, count |-> None, data |-> None,
      call |-> Call(table, "update", <<col, val>>, payload, err, None)]

\* from(table).delete().eq(col, val)
StoreDelete(d, table, col, val, transport) ==
  LET rows == {r \in d[table] : r[col] # Some(val)}
      err == IF transport # None THEN transport
             ELSE ConstraintError(d, table, rows)
  IN [db |-> IF err = None THEN [d EXCEPT ![table] = rows] ELSE d,
      error |-> err, count |-> None, data |-> None,
      call |-> Call(table, "delete", <<col, val>>, EmptyObject, err, None)]

\* from(table).select('*'): the rows, in no order the query fixes
StoreSelect(d, table, transport) ==
  [db |-> d, error |-> transport, count |-> None,
   data |-> IF transport = None THEN Some(d[table]) ELSE None,
   call |-> Call(table, "select", None, EmptyObject, transport, None)]

\* from(table).select('*').eq(col, val).maybeSingle(): the row or null
StoreSelectMaybeSingle(d, table, col, val, transport) ==
  LET rows == {r \in d[table] : r[col] = Some(val)}
  IN [db |-> d, error |-> transport, count |-> None,
      data |-> IF transport = None /\ rows # {}
                 THEN Some(CHOOSE r \in rows : TRUE) ELSE None,
      call |-> Call(table, "select", <<col, val>>, EmptyObject, transport, None)]

\* a slip: the upsert with ignoreDuplicates, a stored row with the same value
\* of col is kept as it is
StoreUpsertIgnoreDuplicates(d, table, payload, col, transport, now) ==
  LET row == RowOfPayload(table, payload, now)
      rows == IF \E r \in d[table] : r[col] = row[col] THEN d[table]
              ELSE d[table] \cup {row}
      err == IF transport # None THEN transport
             ELSE ConstraintError(d, table, rows)
  IN [db |-> IF err = None THEN [d EXCEPT ![table] = rows] ELSE d,
      error |-> err, count |-> None, data |-> None,
      call |-> Call(table, "upsert", None, payload, err, None)]

\* from(table).upsert(payload, { onConflict: col }): the row with the
\* payload's value of col is replaced, or the row is inserted
StoreUpsert(d, table, payload, col, transport, now) ==
  LET row == RowOfPayload(table, payload, now)
      rows == {r \in d[table] : r[col] # row[col]} \cup {row}
      err == IF transport # None THEN transport
             ELSE ConstraintError(d, table, rows)
  IN [db |-> IF err = None THEN [d EXCEPT ![table] = rows] ELSE d,
      error |-> err, count |-> None, data |-> None,
      call |-> Call(table, "upsert", None, payload, err, None)]

\* ------------------------------------------ Sync Gateway: databaseService
\* what an operation did: the store after it, the calls it issued in order,
\* the error it threw (<< >>: it returned), the value it returned, the
\* identifier it computed
Outcome(d, calls, threw, ret, newId) ==
  [db |-> d, calls |-> calls, threw |-> threw, ret |-> ret, newId |-> newId]

\* count || 0
CountOrZero(count) == IF count = None \/ count[1] = 0 THEN 0 ELSE count[1]

\* a slip: the increment of nextNum left out
OnlineNewIdNoIncrement(prefix, count) ==
  FormatId(prefix, ID_START_BASE + CountOrZero(count))

\* nextNum = ID_START_BASE + (count || 0); id = `${prefix}-${(nextNum + 1)...}`
OnlineNewId(prefix, count) ==
  LET nextNum == ID_START_BASE + CountOrZero(count)
  IN FormatId(prefix, nextNum + 1)

\* { ...data, altPhone: data.alt_phone, createdAt: data.created_at }
CustomerFromRow(data) ==
  Put(Put(data, "altPhone", data.alt_phone), "createdAt", data.created_at)

\* { ...data, customerId: data.customer_id, ..., actualTotalCost: ... }
RepairFromRow(data) ==
  Put(Put(Put(Put(Put(Put(data,
    "customerId", data.customer_id),
    "materialDetails", data.material_details),
    "receivedDate", data.received_date),
    "deliveryDate", data.delivery_date),
    "billNote", data.bill_note),
    "actualTotalCost", data.actual_total_cost)

AddCustomerPayload(newId, customer, now) ==
  LET p0 == [id |-> newId]
      p1 == PutIfDefined(p0, "name", customer, "name")
      p2 == PutIfDefined(p1, "phone", customer, "phone")
      p3 == PutIfDefined(p2, "alt_phone", customer, "altPhone")
      p4 == PutIfDefined(p3, "address", customer, "address")
  IN Put(p4, "created_at", now)

\* a slip: the error of the count query thrown before anything is inserted
addCustomerCountChecked(d, customer, now, t1, t2) ==
  LET cnt == StoreCount(d, "customers", t1)
      newId == OnlineNewId("C", cnt.count)
      ins == StoreInsert(d, "customers", AddCustomerPayload(newId, customer, now),
                         t2, now)
  IN IF cnt.error # None
       THEN Outcome(d, <<cnt.call>>, cnt.error, None, newId)
     ELSE Outcome(ins.db, <<cnt.call, ins.call>>, ins.error,
                  IF ins.error = None THEN Some(CustomerFromRow(ins.data[1]))
                  ELSE None,
                  newId)

addCustomer(d, customer, now, t1, t2) ==
  LET cnt == StoreCount(d, "customers", t1)
      newId == OnlineNewId("C", cnt.count)
      ins == StoreInsert(d, "customers", AddCustomerPayload(newId, customer, now),
                         t2, now)
  IN Outcome(ins.db, <<cnt.call, ins.call>>, ins.error,
             IF ins.error = None THEN Some(CustomerFromRow(ins.data[1])) ELSE None,
             newId)

AddRepairPayload(newId, repair) ==
  LET p0 == [id |-> newId]
      p1 == PutIfDefined(p0, "customer_id", repair, "customerId")
      p2 == PutIfDefined(p1, "material_details", repair, "materialDetails")
      p3 == PutIfDefined(p2, "services", repair, "services")
      p4 == PutIfDefined(p3, "estimated_time", repair, "estimatedTime")
      p5 == PutIfDefined(p4, "status", repair, "status")
      p6 == PutIfDefined(p5, "received_date", repair, "receivedDate")
      p7 == PutIfDefined(p6, "bill_note", repair, "billNote")
  IN PutIfDefined(p7, "actual_total_cost", repair, "actualTotalCost")

addRepair(d, repair, now, t1, t2) ==
  LET cnt == StoreCount(d, "repairs", t1)
      newId == OnlineNewId("R", cnt.count)
      ins == StoreInsert(d, "repairs", AddRepairPayload(newId, repair), t2, now)
  IN Outcome(ins.db, <<cnt.call, ins.call>>, ins.error,
             IF ins.error = None THEN Some(RepairFromRow(ins.data[1])) ELSE None,
             newId)

\* if (updates.f) ...: the JavaScript truthiness of a text, a timestamp text
\* and a number
TruthyText(v) == v # ""
TruthyStamp(v) == v # << >>
TruthyNumber(v) == v # 0 /\ v # NaN

UpdateCustomerPayload(updates) ==
  LET p0 == EmptyObject
      p1 == IF Has(updates, "name") /\ TruthyText(updates.name)
              THEN Put(p0, "name", updates.name) ELSE p0
      p2 == IF Has(updates, "phone") /\ TruthyText(updates.phone)
              THEN Put(p1, "phone", updates.phone) ELSE p1
      p3 == IF Has(updates, "altPhone")
              THEN Put(p2, "alt_phone", updates.altPhone) ELSE p2
  IN IF Has(updates, "address") THEN Put(p3, "address", updates.address) ELSE p3

updateCustomer(d, customerId, updates, t1) ==
  LET upd == StoreUpdate(d, "customers", UpdateCustomerPayload(updates),
                         "id", customerId, t1)
  IN Outcome(upd.db, <<upd.call>>, upd.error, None, customerId)

\* a slip: the customer row first, then the cascade
deleteCustomerRowFirst(d, customerId, t1, t2) ==
  LET del == StoreDelete(d, "customers", "id", customerId, t2)
      cascade == StoreDelete(del.db, "repairs", "customer_id", customerId, t1)
  IN Outcome(cascade.db, <<del.call, cascade.call>>, del.error, None, customerId)

\* a slip: the cascade undone when the customer row delete fails
deleteCustomerRollback(d, customerId, t1, t2) ==
  LET cascade == StoreDelete(d, "repairs", "customer_id", customerId, t1)
      del == StoreDelete(cascade.db, "customers", "id", customerId, t2)
  IN Outcome(IF del.error = None THEN del.db ELSE d,
             <<cascade.call, del.call>>, del.error, None, customerId)

\* the cascade, then the customer row; the cascade's result is not looked at
deleteCustomer(d, customerId, t1, t2) ==
  LET cascade == StoreDelete(d, "repairs", "customer_id", customerId, t1)
      del == StoreDelete(cascade.db, "customers", "id", customerId, t2)
  IN Outcome(del.db, <<cascade.call, del.call>>, del.error, None, customerId)

\* a slip: payload.status = updates.status || 'Pending', whatever is present
UpdateRepairPayloadDefaultStatus(updates) ==
  LET p0 == [status |-> IF Has(updates, "status") /\ TruthyText(updates.status)
                          THEN updates.status ELSE "Pending"]
      p1 == IF Has(updates, "billNote")
              THEN Put(p0, "bill_note", updates.billNote) ELSE p0
  IN IF Has(updates, "actualTotalCost")
       THEN Put(p1, "actual_total_cost", updates.actualTotalCost) ELSE p1

UpdateRepairPayload(updates) ==
  LET p0 == EmptyObject
      p1 == IF Has(updates, "materialDetails") /\ TruthyText(updates.materialDetails)
              THEN Put(p0, "material_details", updates.materialDetails) ELSE p0
      \* an array is truthy, also when empty
      p2 == IF Has(updates, "services")
              THEN Put(p1, "services", updates.services) ELSE p1
      p3 == IF Has(updates, "estimatedTime") /\ TruthyText(updates.estimatedTime)
              THEN Put(p2, "estimated_time", updates.estimatedTime) ELSE p2
      p4 == IF Has(updates, "status") /\ TruthyText(updates.status)
              THEN Put(p3, "status", updates.status) ELSE p3
      p5 == IF Has(updates, "deliveryDate") /\ TruthyStamp(updates.deliveryDate)
              THEN Put(p4, "delivery_date", updates.deliveryDate) ELSE p4
      p6 == IF Has(updates, "billNote")
              THEN Put(p5, "bill_note", updates.billNote) ELSE p5
  IN IF Has(updates, "actualTotalCost")
       THEN Put(p6, "actual_total_cost", updates.actualTotalCost) ELSE p6

updateRepair(d, repairId, updates, t1) ==
  LET upd == StoreUpdate(d, "repairs", UpdateRepairPayload(updates),
                         "id", repairId, t1)
  IN Outcome(upd.db, <<upd.call>>, upd.error, None, repairId)

\* a slip: the delete sent without its filter
deleteRepairUnfiltered(d, repairId, t1) ==
  LET del == StoreDelete(d, "repairs", "id", repairId, t1)
      rows == IF del.error = None THEN [d EXCEPT !.repairs = {}] ELSE d
  IN Outcome(rows, <<del.call>>, del.error, None, repairId)

\* a slip: the delete issued again when it came back with an error
deleteRepairRetrying(d, repairId, t1) ==
  LET del == StoreDelete(d, "repairs", "id", repairId, t1)
      again == StoreDelete(d, "repairs", "id", repairId, None)
  IN IF del.error = None
       THEN Outcome(del.db, <<del.call>>, del.error, None, repairId)
     ELSE Outcome(again.db, <<del.call, again.call>>, again.error, None, repairId)

deleteRepair(d, repairId, t1) ==
  LET del == StoreDelete(d, "repairs", "id", repairId, t1)
  IN Outcome(del.db, <<del.call>>, del.error, None, repairId)

\* what one read of fetchAppState comes to: the awaited call resolves, with
\* or without an error, or it rejects
ReadErrors ==
  {None, Some(NetworkError), Some(TableMissingError), Some(RelationMissingError)}

ReadOutcomes ==
  {[rejects |-> FALSE, error |-> e] : e \in ReadErrors}
    \cup {[rejects |-> TRUE, error |-> Some(NetworkError)]}

\* (res.data || []).map(c => ({ ...c, altPhone: c.alt_phone,
\*                             createdAt: c.created_at || new Date()... }))
FetchedCustomers(res, now) ==
  IF res.data = None THEN {}
  ELSE {Put(Put(c, "altPhone", c.alt_phone),
            "createdAt", IF c.created_at # None THEN c.created_at ELSE Some(now)) :
          c \in res.data[1]}

FetchedRepairs(res) ==
  IF res.data = None THEN {} ELSE {RepairFromRow(r) : r \in res.data[1]}

\* a slip: any error of a required read taken as a missing table
TablesMissingOfAnyError(customersRes, repairsRes, settingsRes) ==
  \E err \in {customersRes.error, repairsRes.error} : err # None

\* a slip: the settings read taken into the flag
TablesMissingOfAllReads(customersRes, repairsRes, settingsRes) ==
  \E err \in {customersRes.error, repairsRes.error, settingsRes.error} :
    isTableMissingError(err)

\* [customersRes.error, repairsRes.error].some(err => isTableMissingError(err))
TablesMissingOf(customersRes, repairsRes, settingsRes) ==
  \E err \in {customersRes.error, repairsRes.error} : isTableMissingError(err)

\* a slip: the rows dropped when a table is missing
FetchedStateAllOrNothing(customersRes, repairsRes, settingsRes, now) ==
  LET missing == TablesMissingOf(customersRes, repairsRes, settingsRes)
  IN [customers |-> IF missing THEN {} ELSE FetchedCustomers(customersRes, now),
      repairs |-> IF missing THEN {} ELSE FetchedRepairs(repairsRes),
      tablesMissing |-> missing]

\* the object the try block returns; logo: settingsRes.data?.value || undefined
FetchedState(customersRes, repairsRes, settingsRes, now) ==
  LET state == [customers |-> FetchedCustomers(customersRes, now),
                repairs |-> FetchedRepairs(repairsRes),
                tablesMissing |->
                  TablesMissingOf(customersRes, repairsRes, settingsRes)]
      row == settingsRes.data
  IN IF row # None /\ row[1].value # None /\ TruthyText(row[1].value[1])
       THEN Put(state, "logo", row[1].value[1])
     ELSE state

\* a slip: the catch block throws the exception on
FetchCaughtRethrown(err) ==
  [threw |-> Some(err), ret |-> None]

\* catch (err) { console.error(...); return { customers: [], repairs: [] } }
FetchCaught(err) ==
  [threw |-> None, ret |-> Some([customers |-> {}, repairs |-> {}])]

\* reads: what the customers, the repairs and the settings read come to
fetchAppState(d, now, reads) ==
  IF ~isConfigured
    THEN Outcome(d, << >>, None, Some([customers |-> {}, repairs |-> {}]), None)
  ELSE
    LET customersRes == StoreSelect(d, "customers", reads[1].error)
        repairsRes == StoreSelect(d, "repairs", reads[2].error)
        settingsRes ==
          StoreSelectMaybeSingle(d, "settings", "key", "logo", reads[3].error)
        calls == <<customersRes.call, repairsRes.call, settingsRes.call>>
        rejected == {r \in Range(reads) : r.rejects}
    IN IF rejected # {}
         THEN LET caught == FetchCaught((CHOOSE r \in rejected : TRUE).error[1])
              IN Outcome(d, calls, caught.threw, caught.ret, None)
       ELSE Outcome(d, calls, None,
                    Some(FetchedState(customersRes, repairsRes, settingsRes, now)),
                    None)

\* new Error("The 'settings' table is missing. Please run the SQL setup
\* script in Settings.")
SettingsMissingError ==
  [message |-> <<"The", "'settings'", "table", "is", "missing.">>]

\* a slip: every upsert error thrown as it came
saveLogoRethrowAll(d, logo, now, t1) ==
  IF ~isConfigured THEN Outcome(d, << >>, Some(NotConnectedError), None, None)
  ELSE
    LET ups == StoreUpsert(d, "settings", [key |-> "logo", value |-> logo],
                           "key", t1, now)
    IN Outcome(ups.db, <<ups.call>>, ups.error, None, None)

saveLogo(d, logo, now, t1) ==
  IF ~isConfigured THEN Outcome(d, << >>, Some(NotConnectedError), None, None)
  ELSE
    LET ups == StoreUpsert(d, "settings", [key |-> "logo", value |-> logo],
                           "key", t1, now)
    IN Outcome(ups.db, <<ups.call>>,
               IF ups.error = None THEN None
               ELSE IF isTableMissingError(ups.error)
                 THEN Some(SettingsMissingError)
               ELSE ups.error,
               None, None)

\* ------------------------------------------ Local Mirror: storageService
\* JSON.stringify and JSON.parse of the whole blob
\* a text is kept as whether it is the empty string and what JSON.parse makes
\* of it: a value, or none when JSON.parse throws
JsonStringify(state) == [empty |-> FALSE, json |-> Some(state)]
JsonParses(text) == text.json # None
JsonParse(text) == text.json[1]

\* texts that JSON.parse throws on: '' and '{"customers":['
EmptyText == [empty |-> TRUE, json |-> None]
TruncatedText == [empty |-> FALSE, json |-> None]

SyntaxError == [code |-> "", message |-> <<"Unexpected", "end", "of", "JSON", "input">>]

\* !data: getItem gave null, or the empty string
NoData(item) == item = None \/ item[1].empty

\* loadData() throws what JSON.parse throws
loadDataThrows(item) == ~NoData(item) /\ ~JsonParses(item[1])

\* what loadData() returns when it does not throw
loadData(item) ==
  IF NoData(item) THEN [customers |-> << >>, repairs |-> << >>]
  ELSE JsonParse(item[1])

saveData(state) == Some(JsonStringify(state))

\* a slip: the reduce looks at the first entity only
MaxIdNumFirstOnly(list, max) ==
  IF list = << >> THEN max
  ELSE LET num == IdNumber(Head(list).id)
       IN IF num > max THEN num ELSE max

\* list.reduce((max, e) => { num = parseInt(e.id.split('-')[1]);
\*                           return num > max ? num : max }, start)
RECURSIVE MaxIdNum(_, _)
MaxIdNum(list, max) ==
  IF list = << >> THEN max
  ELSE LET num == IdNumber(Head(list).id)
       IN MaxIdNum(Tail(list), IF num > max THEN num ELSE max)

\* a slip: the count-based number of the online allocator
StorageNewIdByCount(prefix, list) ==
  FormatId(prefix, StorageIdStartBase + Len(list))

StorageNewId(prefix, list) ==
  FormatId(prefix, MaxIdNum(list, StorageIdStartBase - 1) + 1)

storageAddCustomer(item, customer, now) ==
  LET data == loadData(item)
      newCustomer == Put(Put(customer, "id", StorageNewId("C", data.customers)),
                         "createdAt", now)
  IN [ls |-> saveData([data EXCEPT !.customers = Append(@, newCustomer)]),
      ret |-> newCustomer]

\* { ...o, ...u }
Spread(o, u) ==
  [k \in (DOMAIN o) \cup (DOMAIN u) |-> IF k \in DOMAIN u THEN u[k] ELSE o[k]]

\* list.findIndex(e => e.id === id): 0 stands for -1
FindIndex(list, id) ==
  IF \E i \in 1..Len(list) : list[i].id = id
    THEN CHOOSE i \in 1..Len(list) :
           list[i].id = id /\ \A j \in 1..(i - 1) : list[j].id # id
  ELSE 0

storageUpdateCustomer(item, customerId, updates) ==
  LET data == loadData(item)
      index == FindIndex(data.customers, customerId)
  IN [ls |-> IF index # 0
               THEN saveData([data EXCEPT
                      !.customers[index] = Spread(@, updates)])
             ELSE item,
      ret |-> None]

storageDeleteCustomer(item, customerId) ==
  LET data == loadData(item)
  IN [ls |-> saveData([data EXCEPT
                !.customers = SelectSeq(@, LAMBDA c : c.id # customerId),
                !.repairs = SelectSeq(@, LAMBDA r : r.customerId # customerId)]),
      ret |-> None]

storageAddRepair(item, repair) ==
  LET data == loadData(item)
      newRepair == Put(repair, "id", StorageNewId("R", data.repairs))
  IN [ls |-> saveData([data EXCEPT !.repairs = Append(@, newRepair)]),
      ret |-> newRepair]

storageUpdateRepair(item, repairId, updates) ==
  LET data == loadData(item)
      index == FindIndex(data.repairs, repairId)
  IN [ls |-> IF index # 0
               THEN saveData([data EXCEPT
                      !.repairs[index] = Spread(@, updates)])
             ELSE item,
      ret |-> None]

storageDeleteRepair(item, repairId) ==
  LET data == loadData(item)
  IN [ls |-> saveData([data EXCEPT
                !.repairs = SelectSeq(@, LAMBDA r : r.id # repairId)]),
      ret |-> None]

\* data = loadData(); data.logo = logo; saveData(data)
storageSaveLogo(item, logo) ==
  LET data == loadData(item)
  IN [ls |-> saveData(Put(data, "logo", logo)), ret |-> None]

\* ------------------------------------------------------- RepairBill total
\* Number(curr.cost) || 0
CostOrZero(cost) == IF TruthyNumber(cost) THEN cost ELSE 0

\* services.reduce((acc, curr) => acc + (Number(curr.cost) || 0), 0)
RECURSIVE SumOfServices(_, _)
SumOfServices(services, acc) ==
  IF services = << >> THEN acc
  ELSE SumOfServices(Tail(services), acc + CostOrZero(Head(services).cost))

\* repair.actualTotalCost || repair.services.reduce(...)
totalPayable(repair) ==
  IF Has(repair, "actualTotalCost") /\ TruthyNumber(repair.actualTotalCost)
    THEN repair.actualTotalCost
  ELSE SumOfServices(repair.services, 0)

\* ----------------------------------------------------------------- inputs
\* what the customer form submits (App.tsx handleSaveCustomer) and a caller
\* that leaves the optional fields out
CustomerInputs ==
  {[name |-> "Asha", phone |-> "98", altPhone |-> "", address |-> ""],
   [name |-> "Ravi", phone |-> "97"]}

ServiceA == [problem |-> "screen", cost |-> 300]

\* what the repair form submits for a customer (App.tsx handleSaveRepair)
RepairInput(customerId, now) ==
  [customerId |-> customerId, materialDetails |-> "laptop",
   services |-> <<ServiceA>>, estimatedTime |-> "2d", status |-> "Pending",
   actualTotalCost |-> 300, receivedDate |-> now]

\* the partial objects over the keys of vals with at most n keys present,
\* each present key holding one of its values
RECURSIVE Partials(_, _, _)
Partials(keys, vals, n) ==
  IF keys = {} THEN {EmptyObject}
  ELSE LET k == CHOOSE x \in keys : TRUE
           rest == Partials(keys \ {k}, vals, n)
       IN rest \cup {Put(o, k, v) : o \in {x \in rest : Cardinality(DOMAIN x) < n},
                                    v \in vals[k]}

CustomerUpdateValues ==
  [name |-> {"", "Asha"}, phone |-> {"", "98"},
   altPhone |-> {"", "91"}, address |-> {"", "Pune"}]

CustomerUpdates ==
  Partials(DOMAIN CustomerUpdateValues, CustomerUpdateValues, MaxUpdFields)

RepairUpdateValues ==
  [materialDetails |-> {"", "laptop"}, services |-> {<< >>, <<ServiceA>>},
   estimatedTime |-> {"", "2d"}, status |-> {"Delivered"},
   deliveryDate |-> {<< >>, ToISOString(9)}, billNote |-> {"", "Paid"},
   actualTotalCost |-> {0, 500}]

RepairUpdates ==
  Partials(DOMAIN RepairUpdateValues, RepairUpdateValues, MaxUpdFields)

\* partial updates given to the Local Mirror: Partial<Customer> and
\* Partial<RepairJob> admit every field of the entity, id and createdAt too
LocalCustomerUpdates ==
  {[address |-> "Pune"], [name |-> "Asha B", phone |-> "98"],
   [id |-> FormatId("C", 1007)], [createdAt |-> ToISOString(0)],
   [id |-> FormatId("C", 1007), createdAt |-> ToISOString(0)]}

LocalRepairUpdates ==
  {[billNote |-> "Paid"], [status |-> "Delivered", deliveryDate |-> ToISOString(9)],
   [id |-> FormatId("R", 1007)], [customerId |-> FormatId("C", 1007)]}

\* ------------------------------------------------------------------- Init
NoOp == [op |-> "none", id |-> << >>, arg |-> EmptyObject, calls |-> << >>,
         threw |-> None, ret |-> None]

NoProbe == [fn |-> "none", in |-> EmptyObject, out |-> None]

\* useState({ customers: [], repairs: [] })
InitialData == [customers |-> {}, repairs |-> {}]

Init ==
  /\ db = [customers |-> {}, repairs |-> {}, settings |-> {}]
  /\ clock = 1
  /\ last = NoOp
  /\ allocC = << >>
  /\ allocR = << >>
  /\ ls = None
  /\ lsAllocC = << >>
  /\ lsAllocR = << >>
  /\ probe = NoProbe
  /\ supabaseUrl = ConfiguredUrl
  /\ supabaseAnonKey = ConfiguredAnonKey
  /\ tasks = << >>
  /\ appData = InitialData

\* ---------------------------------------------------------------- actions
\* the caller has taken the result of the operation before
Idle == last.op = "none"

\* one online operation, run from call to return
Ran(op, arg, r) ==
  /\ db' = r.db
  /\ last' = [op |-> op, id |-> r.newId, arg |-> arg, calls |-> r.calls,
              threw |-> r.threw, ret |-> r.ret]

AddCustomer ==
  /\ Idle
  /\ \E customer \in CustomerInputs, t1, t2 \in Transports :
       LET r == addCustomer(db, customer, ToISOString(clock), t1, t2)
       IN /\ Len(allocC) < MaxAdds
          /\ Ran("addCustomer", customer, r)
          /\ allocC' = IF r.threw = None THEN Append(allocC, r.newId) ELSE allocC
          /\ clock' = IF r.threw = None THEN clock + 1 ELSE clock
          /\ UNCHANGED <<allocR, localVars, probe, buildVars, tasks, appData>>

AddRepair ==
  /\ Idle
  /\ \E customerId \in Range(allocC), t1, t2 \in Transports :
       LET repair == RepairInput(customerId, ToISOString(clock))
           r == addRepair(db, repair, ToISOString(clock), t1, t2)
       IN /\ Len(allocR) < MaxAdds
          /\ Ran("addRepair", repair, r)
          /\ allocR' = IF r.threw = None THEN Append(allocR, r.newId) ELSE allocR
          /\ clock' = IF r.threw = None THEN clock + 1 ELSE clock
          /\ UNCHANGED <<allocC, localVars, probe, buildVars, tasks, appData>>

UpdateCustomer ==
  /\ Idle
  /\ \E customerId \in Range(allocC), updates \in CustomerUpdates,
        t1 \in Transports :
       /\ Ran("updateCustomer", updates, updateCustomer(db, customerId, updates, t1))
       /\ UNCHANGED <<clock, allocC, allocR, localVars, probe, buildVars, tasks, appData>>

DeleteCustomer ==
  /\ Idle
  /\ \E customerId \in Range(allocC), t1, t2 \in Transports :
       /\ Ran("deleteCustomer", EmptyObject, deleteCustomer(db, customerId, t1, t2))
       /\ UNCHANGED <<clock, allocC, allocR, localVars, probe, buildVars, tasks, appData>>

UpdateRepair ==
  /\ Idle
  /\ \E repairId \in Range(allocR), updates \in RepairUpdates,
        t1 \in Transports :
       /\ Ran("updateRepair", updates, updateRepair(db, repairId, updates, t1))
       /\ UNCHANGED <<clock, allocC, allocR, localVars, probe, buildVars, tasks, appData>>

DeleteRepair ==
  /\ Idle
  /\ \E repairId \in Range(allocR), t1 \in Transports :
       /\ Ran("deleteRepair", EmptyObject, deleteRepair(db, repairId, t1))
       /\ UNCHANGED <<clock, allocC, allocR, localVars, probe, buildVars, tasks, appData>>

\* the logo the upload handler passes: a data URL of the chosen image
LogoInputs == {"data:image/png;base64,AAAA", "data:image/png;base64,BBBB"}

\* what the upsert may come back with: besides the outcomes of every call,
\* the store's own report that the relation does not exist
LogoTransports ==
  IF isConfigured THEN TransportOutcomes \cup {Some(RelationMissingError)}
  ELSE Transports

SaveLogo ==
  /\ Idle
  /\ \E logo \in LogoInputs, t1 \in LogoTransports :
       /\ Ran("saveLogo", [logo |-> logo],
              saveLogo(db, logo, ToISOString(clock), t1))
       /\ UNCHANGED <<clock, allocC, allocR, localVars, probe, buildVars, tasks, appData>>

\* the reads of one fetchAppState: none is issued when not configured
FetchReads == IF isConfigured THEN [1..3 -> ReadOutcomes] ELSE {<< >>}

Fetch ==
  /\ Idle
  /\ \E reads \in FetchReads :
       /\ Ran("fetchAppState", [reads |-> reads],
              fetchAppState(db, ToISOString(clock), reads))
       /\ UNCHANGED <<clock, allocC, allocR, localVars, probe, buildVars, tasks, appData>>

\* one Local Mirror operation: synchronous, no store call, never throws here
RanLocal(op, id, arg, r) ==
  /\ ls' = r.ls
  /\ last' = [op |-> op, id |-> id, arg |-> arg, calls |-> << >>,
              threw |-> None, ret |-> r.ret]

LocalAddCustomer ==
  /\ Idle
  /\ \E customer \in CustomerInputs :
       LET r == storageAddCustomer(ls, customer, ToISOString(clock))
       IN /\ Len(lsAllocC) + Len(lsAllocR) < MaxLocalAdds
          /\ RanLocal("storage.addCustomer", r.ret.id, customer, r)
          /\ lsAllocC' = Append(lsAllocC, r.ret.id)
          /\ clock' = clock + 1
          /\ UNCHANGED <<lsAllocR, onlineVars, probe, buildVars, tasks, appData>>

LocalDeleteCustomer ==
  /\ Idle
  /\ \E customerId \in Range(lsAllocC) :
       /\ RanLocal("storage.deleteCustomer", customerId, EmptyObject,
                   storageDeleteCustomer(ls, customerId))
       /\ UNCHANGED <<clock, lsAllocC, lsAllocR, onlineVars, probe, buildVars, tasks, appData>>

LocalAddRepair ==
  /\ Idle
  /\ \E customerId \in Range(lsAllocC) :
       LET repair == RepairInput(customerId, ToISOString(clock))
           r == storageAddRepair(ls, repair)
       IN /\ Len(lsAllocC) + Len(lsAllocR) < MaxLocalAdds
          /\ RanLocal("storage.addRepair", r.ret.id, repair, r)
          /\ lsAllocR' = Append(lsAllocR, r.ret.id)
          /\ clock' = clock + 1
          /\ UNCHANGED <<lsAllocC, onlineVars, probe, buildVars, tasks, appData>>

LocalDeleteRepair ==
  /\ Idle
  /\ \E repairId \in Range(lsAllocR) :
       /\ RanLocal("storage.deleteRepair", repairId, EmptyObject,
                   storageDeleteRepair(ls, repairId))
       /\ UNCHANGED <<clock, lsAllocC, lsAllocR, onlineVars, probe, buildVars, tasks, appData>>

LocalUpdateCustomer ==
  /\ Idle
  /\ \E customerId \in Range(lsAllocC), updates \in LocalCustomerUpdates :
       /\ RanLocal("storage.updateCustomer", customerId, updates,
                   storageUpdateCustomer(ls, customerId, updates))
       /\ UNCHANGED <<clock, lsAllocC, lsAllocR, onlineVars, probe, buildVars, tasks, appData>>

LocalUpdateRepair ==
  /\ Idle
  /\ \E repairId \in Range(lsAllocR), updates \in LocalRepairUpdates :
       /\ RanLocal("storage.updateRepair", repairId, updates,
                   storageUpdateRepair(ls, repairId, updates))
       /\ UNCHANGED <<clock, lsAllocC, lsAllocR, onlineVars, probe, buildVars, tasks, appData>>

\* the caller takes the result (the handler that awaited the operation goes
\* on); the next operation starts after that
Return ==
  /\ ~Idle
  /\ last' = NoOp
  /\ UNCHANGED <<clock, onlineVars, localVars, probe, buildVars, tasks, appData>>

\* --------------------------------------------------------- specifications
\* the Sync Gateway, one operation at a time
NextOnline ==
  AddCustomer \/ AddRepair \/ DeleteCustomer \/ DeleteRepair \/ Return

SpecOnline == Init /\ [][NextOnline]_vars

\* the Local Mirror under add and delete
NextLocal ==
  \/ LocalAddCustomer \/ LocalAddRepair \/ LocalDeleteCustomer
  \/ LocalDeleteRepair \/ Return

SpecLocal == Init /\ [][NextLocal]_vars

\* the online allocator applied to the count a count query reports
LargeCounts == {8998, 8999, 998998, 998999}

CountInputs == {None} \cup {Some(n) : n \in (0..MaxCount) \cup LargeCounts}

AllocateOnline ==
  \E prefix \in {"C", "R"}, count \in CountInputs :
    /\ probe' = [fn |-> "OnlineNewId", in |-> [prefix |-> prefix, count |-> count],
                 out |-> Some(OnlineNewId(prefix, count))]
    /\ UNCHANGED <<clock, last, onlineVars, localVars, buildVars, tasks, appData>>

SpecAlloc == Init /\ [][AllocateOnline]_vars

\* the bill of a repair: its services and, when set, its actualTotalCost
ServiceCosts == {NaN, 0, 100, 200, 300}

RECURSIVE ServiceLists(_)
ServiceLists(n) ==
  IF n = 0 THEN {<< >>}
  ELSE LET shorter == ServiceLists(n - 1)
       IN shorter \cup {Append(l, [problem |-> "screen", cost |-> c]) :
                          l \in shorter, c \in ServiceCosts}

BillRepairs ==
  LET base == {[id |-> FormatId("R", 1001), services |-> l, status |-> "Completed"] :
                 l \in ServiceLists(MaxServices)}
  IN base \cup {Put(r, "actualTotalCost", a) : r \in base, a \in {0, 300, 500}}

RenderBill ==
  \E repair \in BillRepairs :
    /\ probe' = [fn |-> "totalPayable", in |-> repair,
                 out |-> Some(totalPayable(repair))]
    /\ UNCHANGED <<clock, last, onlineVars, localVars, buildVars, tasks, appData>>

SpecBill == Init /\ [][RenderBill]_vars

\* the Local Mirror allocator applied to the lists the mirror can hold: the
\* entities of one kind in the order they were added, which is the order of
\* their numbers, with any of them deleted
RECURSIVE EntitiesOf(_, _)
EntitiesOf(prefix, nums) ==
  IF nums = {} THEN << >>
  ELSE LET least == CHOOSE n \in nums : \A m \in nums : n <= m
       IN <<[id |-> FormatId(prefix, least)]>> \o EntitiesOf(prefix, nums \ {least})

StoredIdNumbers == StorageIdStartBase..(StorageIdStartBase + MaxIdSpan)

AllocateLocal ==
  \E prefix \in {"C", "R"}, nums \in SUBSET StoredIdNumbers :
    /\ probe' = [fn |-> "StorageNewId",
                 in |-> [prefix |-> prefix, list |-> EntitiesOf(prefix, nums)],
                 out |-> Some(StorageNewId(prefix, EntitiesOf(prefix, nums)))]
    /\ UNCHANGED <<clock, last, onlineVars, localVars, buildVars, tasks, appData>>

SpecLocalAlloc == Init /\ [][AllocateLocal]_vars

\* the Schema Guard applied to no error and to errors with or without a
\* code and a message
GuardWords == {"schema", "cache", "does", "not", "exist", "timeout"}

RECURSIVE Messages(_)
Messages(n) ==
  IF n = 0 THEN {<< >>}
  ELSE LET shorter == Messages(n - 1)
       IN shorter \cup {Append(m, w) : m \in shorter, w \in GuardWords}

GuardCodes == {"PGRST205", "PGRST116", ""}

GuardErrors ==
  LET withMessage == {[message |-> m] : m \in Messages(MaxWords)}
  IN {None, Some(EmptyObject)}
       \cup {Some(e) : e \in withMessage}
       \cup {Some([code |-> c]) : c \in GuardCodes}
       \cup {Some(Put(e, "code", c)) : e \in withMessage, c \in GuardCodes}

ClassifyError ==
  \E error \in GuardErrors :
    /\ probe = NoProbe
    /\ probe' = [fn |-> "isTableMissingError", in |-> [error |-> error],
                 out |-> Some(isTableMissingError(error))]
    /\ UNCHANGED <<clock, last, onlineVars, localVars, buildVars, tasks, appData>>

SpecGuard == Init /\ [][ClassifyError]_vars

\* the Sync Gateway's updates, on a store that holds one customer and one
\* repair of that customer, as Add Customer and Add RepairJob leave it
InitUpd ==
  LET empty == [customers |-> {}, repairs |-> {}, settings |-> {}]
      customer == [name |-> "Asha", phone |-> "98", altPhone |-> "", address |-> ""]
      a == addCustomer(empty, customer, ToISOString(1), None, None)
      b == addRepair(a.db, RepairInput(a.newId, ToISOString(2)), ToISOString(2),
                     None, None)
  IN /\ db = b.db
     /\ clock = 3
     /\ last = NoOp
     /\ allocC = <<a.newId>>
     /\ allocR = <<b.newId>>
     /\ ls = None
     /\ lsAllocC = << >>
     /\ lsAllocR = << >>
     /\ probe = NoProbe
     /\ supabaseUrl = ConfiguredUrl
     /\ supabaseAnonKey = ConfiguredAnonKey
     /\ tasks = << >>
     /\ appData = InitialData

NextUpd == UpdateCustomer \/ UpdateRepair \/ Return

SpecUpd == InitUpd /\ [][NextUpd]_vars

\* the Local Mirror's updates, on a blob that holds one customer and one
\* repair of that customer, as its adds leave it
InitLocalUpd ==
  LET customer == [name |-> "Asha", phone |-> "98", altPhone |-> "", address |-> ""]
      a == storageAddCustomer(None, customer, ToISOString(1))
      b == storageAddRepair(a.ls, RepairInput(a.ret.id, ToISOString(2)))
  IN /\ db = [customers |-> {}, repairs |-> {}, settings |-> {}]
     /\ clock = 3
     /\ last = NoOp
     /\ allocC = << >>
     /\ allocR = << >>
     /\ ls = b.ls
     /\ lsAllocC = <<a.ret.id>>
     /\ lsAllocR = <<b.ret.id>>
     /\ probe = NoProbe
     /\ supabaseUrl = ConfiguredUrl
     /\ supabaseAnonKey = ConfiguredAnonKey
     /\ tasks = << >>
     /\ appData = InitialData

NextLocalUpd == LocalUpdateCustomer \/ LocalUpdateRepair \/ Return

SpecLocalUpd == InitLocalUpd /\ [][NextLocalUpd]_vars

\* Fetch state on a store that holds two customers and a repair of the
\* first, with or without a logo
InitFetch ==
  LET empty == [customers |-> {}, repairs |-> {}, settings |-> {}]
      a == addCustomer(empty, [name |-> "Asha", phone |-> "98", altPhone |-> "",
                               address |-> ""], ToISOString(1), None, None)
      b == addCustomer(a.db, [name |-> "Ravi", phone |-> "97"], ToISOString(2),
                       None, None)
      c == addRepair(b.db, RepairInput(a.newId, ToISOString(3)), ToISOString(3),
                     None, None)
      withLogo == StoreUpsert(c.db, "settings",
                    [key |-> "logo", value |-> "data:image/png;base64,AAAA"],
                    "key", None, ToISOString(4))
  IN /\ db \in {c.db, withLogo.db}
     /\ clock = 5
     /\ last = NoOp
     /\ allocC = <<a.newId, b.newId>>
     /\ allocR = <<c.newId>>
     /\ ls = None
     /\ lsAllocC = << >>
     /\ lsAllocR = << >>
     /\ probe = NoProbe
     /\ supabaseUrl = ConfiguredUrl
     /\ supabaseAnonKey = ConfiguredAnonKey
     /\ tasks = << >>
     /\ appData = InitialData

NextFetch == Fetch \/ Return

SpecFetch == InitFetch /\ [][NextFetch]_vars

\* Save logo and Fetch state in a bundle built with any URL and key, on the
\* store of InitFetch
InitLogo ==
  LET empty == [customers |-> {}, repairs |-> {}, settings |-> {}]
      a == StoreInsert(empty, "customers",
             AddCustomerPayload(FormatId("C", 1001), [name |-> "Asha", phone |-> "98"],
                                ToISOString(1)), None, ToISOString(1))
      withLogo == StoreUpsert(a.db, "settings",
                    [key |-> "logo", value |-> "data:image/png;base64,AAAA"],
                    "key", None, ToISOString(2))
  IN /\ db \in {a.db, withLogo.db}
     /\ clock = 3
     /\ last = NoOp
     /\ allocC = <<FormatId("C", 1001)>>
     /\ allocR = << >>
     /\ ls = None
     /\ lsAllocC = << >>
     /\ lsAllocR = << >>
     /\ probe = NoProbe
     /\ supabaseUrl \in {ConfiguredUrl, placeholderUrl, ""}
     /\ supabaseAnonKey \in {ConfiguredAnonKey, ""}
     /\ tasks = << >>
     /\ appData = InitialData

NextLogo == SaveLogo \/ Fetch \/ Return

SpecLogo == InitLogo /\ [][NextLogo]_vars

\* the Field Mapper there and back: an entity as Add sends it to the store,
\* the row the store makes of it, and that row as Fetch state maps it
CustomerFields == {"name", "phone", "altPhone", "address"}

RepairFields ==
  {"customerId", "materialDetails", "services", "estimatedTime", "status",
   "receivedDate", "deliveryDate", "billNote", "actualTotalCost"}

MapperCustomers ==
  {[name |-> n, phone |-> "98", altPhone |-> a, address |-> d] :
     n \in {"Asha", "Ravi"}, a \in {"", "91"}, d \in {"", "Pune"}}

MapperRepairs ==
  LET base == {[customerId |-> FormatId("C", 1001), materialDetails |-> m,
                services |-> sv, estimatedTime |-> e, status |-> st,
                receivedDate |-> ToISOString(2)] :
                 m \in {"laptop", "printer"}, sv \in {<< >>, <<ServiceA>>},
                 e \in {"", "2d"}, st \in {"Pending", "Completed", "Delivered"}}
      withCost == base \cup {Put(r, "actualTotalCost", 300) : r \in base}
      withNote == withCost \cup {Put(r, "billNote", "Paid") : r \in withCost}
  IN withNote \cup {Put(r, "deliveryDate", ToISOString(9)) :
                      r \in {x \in withNote : x.status = "Delivered"}}

\* the entity whose fields are the values of a mapped row that are not null
EntityOfMapped(mapped, fields) ==
  [f \in {x \in fields : Has(mapped, x) /\ mapped[x] # None} |-> mapped[f][1]]

MapCustomerRoundTrip ==
  \E customer \in MapperCustomers :
    LET id == FormatId("C", 1001)
        now == ToISOString(1)
        row == RowOfPayload("customers", AddCustomerPayload(id, customer, now), now)
        mapped == CHOOSE c \in FetchedCustomers([data |-> Some({row})], now) : TRUE
        again == RowOfPayload("customers",
                   AddCustomerPayload(id, EntityOfMapped(mapped, CustomerFields),
                                      mapped.createdAt[1]), now)
    IN /\ probe = NoProbe
       /\ probe' = [fn |-> "mapCustomer", in |-> customer,
                    out |-> Some([row |-> row, mapped |-> mapped, again |-> again])]
       /\ UNCHANGED <<clock, last, onlineVars, localVars, buildVars, tasks, appData>>

\* the row is taken as Update RepairJob leaves it when the entity has a
\* delivery date
MapRepairRoundTrip ==
  \E repair \in MapperRepairs :
    LET id == FormatId("R", 1001)
        now == ToISOString(2)
        added == RowOfPayload("repairs", AddRepairPayload(id, repair), now)
        mapped == CHOOSE r \in FetchedRepairs([data |-> Some({added})]) : TRUE
        row == IF Has(repair, "deliveryDate")
                 THEN [added EXCEPT !.delivery_date = Some(repair.deliveryDate)]
               ELSE added
        entity == EntityOfMapped(
                    CHOOSE r \in FetchedRepairs([data |-> Some({row})]) : TRUE,
                    RepairFields)
        again == RowOfPayload("repairs", AddRepairPayload(id, entity), now)
    IN /\ probe = NoProbe
       /\ probe' = [fn |-> "mapRepair", in |-> repair,
                    out |-> Some([row |-> row, mapped |-> mapped, again |-> again])]
       /\ UNCHANGED <<clock, last, onlineVars, localVars, buildVars, tasks, appData>>

NextMapper == MapCustomerRoundTrip \/ MapRepairRoundTrip

SpecMapper == Init /\ [][NextMapper]_vars

\* ------------------------------------------- operations, await by await
\* a call that has just been made: pc is the await it stands at
NewTask(op, pc, arg) ==
  [op |-> op, pc |-> pc, arg |-> arg, count |-> None, newId |-> << >>,
   at |-> << >>, before |-> 0, issued |-> {}, completed |-> {},
   rejected |-> {}, refreshAt |-> 0, threw |-> None, ret |-> None]

TaskTable(op) == IF op = "addCustomer" THEN "customers" ELSE "repairs"
TaskPrefix(op) == IF op = "addCustomer" THEN "C" ELSE "R"

\* a slip that would be a guard: the identifiers computed by the calls in
\* flight and not yet inserted are counted in
AfterCountReserving(task, inFlight, cnt, now, before) ==
  LET pending == Cardinality({i \in DOMAIN inFlight :
                    inFlight[i].op = task.op /\ inFlight[i].pc = "insert"})
      reserved == IF cnt.count = None THEN None ELSE Some(cnt.count[1] + pending)
  IN [task EXCEPT !.pc = "insert", !.count = cnt.count,
                  !.newId = OnlineNewId(TaskPrefix(task.op), reserved),
                  !.at = now, !.before = before]

\* an add after its count query returned: nextNum, newId and the payload's
\* timestamp are computed from what the query reported and from nothing else
AfterCount(task, inFlight, cnt, now, before) ==
  [task EXCEPT !.pc = "insert", !.count = cnt.count,
               !.newId = OnlineNewId(TaskPrefix(task.op), cnt.count),
               !.at = now, !.before = before]

\* an add after its insert returned: if (error) throw error; return {...}
AfterInsert(task, ins) ==
  [task EXCEPT !.pc = "done", !.threw = ins.error,
               !.ret = IF ins.error # None THEN None
                       ELSE IF task.op = "addCustomer"
                         THEN Some(CustomerFromRow(ins.data[1]))
                       ELSE Some(RepairFromRow(ins.data[1]))]

CallAddCustomer ==
  \E customer \in CustomerInputs :
    /\ Len(tasks) < MaxTasks
    /\ tasks' = Append(tasks, NewTask("addCustomer", "count", customer))
    /\ UNCHANGED <<db, clock, last, allocC, allocR, localVars, probe, buildVars, appData>>

CallAddRepair ==
  \E c \in db.customers :
    /\ Len(tasks) < MaxTasks
    /\ tasks' = Append(tasks, NewTask("addRepair", "count",
                                      RepairInput(c.id[1], ToISOString(clock))))
    /\ UNCHANGED <<db, clock, last, allocC, allocR, localVars, probe, buildVars, appData>>

CountReturns ==
  \E i \in DOMAIN tasks, t \in Transports :
    LET task == tasks[i]
        cnt == StoreCount(db, TaskTable(task.op), t)
        before == IF task.op = "addCustomer" THEN Len(allocC) ELSE Len(allocR)
    IN /\ task.pc = "count"
       /\ tasks' = [tasks EXCEPT
                      ![i] = AfterCount(task, tasks, cnt, ToISOString(clock), before)]
       /\ clock' = clock + 1
       /\ UNCHANGED <<db, last, allocC, allocR, localVars, probe, buildVars, appData>>

InsertReturns ==
  \E i \in DOMAIN tasks, t \in Transports :
    LET task == tasks[i]
        payload == IF task.op = "addCustomer"
                     THEN AddCustomerPayload(task.newId, task.arg, task.at)
                   ELSE AddRepairPayload(task.newId, task.arg)
        ins == StoreInsert(db, TaskTable(task.op), payload, t, task.at)
    IN /\ task.pc = "insert"
       /\ db' = ins.db
       /\ tasks' = [tasks EXCEPT ![i] = AfterInsert(task, ins)]
       /\ allocC' = IF task.op = "addCustomer" /\ ins.error = None
                      THEN Append(allocC, task.newId) ELSE allocC
       /\ allocR' = IF task.op = "addRepair" /\ ins.error = None
                      THEN Append(allocR, task.newId) ELSE allocR
       /\ UNCHANGED <<clock, last, localVars, probe, buildVars, appData>>

\* adds called while others are in flight, on a store that holds a customer
NextRace == CallAddCustomer \/ CallAddRepair \/ CountReturns \/ InsertReturns

SpecRace == InitUpd /\ [][NextRace]_vars

\* ------------------------------------------------- the handlers of App.tsx
\* a handler awaits its write and then the refresh; nothing in the page keeps
\* an event from firing while the handler of an earlier one is at an await
Started(op, arg) == Append(tasks, NewTask(op, "write", arg))

SubmitCustomerForm ==
  \E customer \in {c \in CustomerInputs : Has(c, "address")} :
    /\ Len(tasks) < MaxTasks
    /\ tasks' = Started("ui.saveCustomer", customer)
    /\ UNCHANGED <<db, clock, last, allocC, allocR, localVars, probe, buildVars, appData>>

ClickDeleteCustomer ==
  \E c \in db.customers :
    /\ Len(tasks) < MaxTasks
    /\ tasks' = Started("ui.deleteCustomer", [id |-> c.id[1]])
    /\ UNCHANGED <<db, clock, last, allocC, allocR, localVars, probe, buildVars, appData>>

ClickDeleteRepair ==
  \E r \in db.repairs :
    /\ Len(tasks) < MaxTasks
    /\ tasks' = Started("ui.deleteRepair", [id |-> r.id[1]])
    /\ UNCHANGED <<db, clock, last, allocC, allocR, localVars, probe, buildVars, appData>>

ChangeBillNote ==
  \E r \in db.repairs :
    /\ Len(tasks) < MaxTasks
    /\ tasks' = Started("ui.billNote", [id |-> r.id[1], billNote |-> "Paid"])
    /\ UNCHANGED <<db, clock, last, allocC, allocR, localVars, probe, buildVars, appData>>

\* the write of a handler, run from call to return
UiWrite(task, d, now, t1, t2) ==
  IF task.op = "ui.saveCustomer" THEN addCustomer(d, task.arg, now, t1, t2)
  ELSE IF task.op = "ui.deleteCustomer" THEN deleteCustomer(d, task.arg.id, t1, t2)
  ELSE IF task.op = "ui.deleteRepair" THEN deleteRepair(d, task.arg.id, t1)
  ELSE updateRepair(d, task.arg.id, [billNote |-> task.arg.billNote], t1)

\* the awaited write returns: the handler goes on to refreshData(), or ends
\* when the write threw
WriteReturns ==
  \E i \in DOMAIN tasks, t1, t2 \in Transports :
    LET task == tasks[i]
        r == UiWrite(task, db, ToISOString(clock), t1, t2)
    IN /\ task.pc = "write"
       /\ db' = r.db
       /\ tasks' = [tasks EXCEPT
                      ![i].pc = IF r.threw = None THEN "refresh" ELSE "done",
                      ![i].refreshAt = IF r.threw = None THEN clock ELSE 0,
                      ![i].threw = r.threw]
       /\ clock' = clock + 1
       /\ UNCHANGED <<last, allocC, allocR, localVars, probe, buildVars, appData>>

\* the fetchAppState of refreshData() returns: setData(state)
RefreshReturns ==
  \E i \in DOMAIN tasks, reads \in FetchReads :
    LET r == fetchAppState(db, ToISOString(clock), reads)
    IN /\ tasks[i].pc = "refresh"
       /\ tasks' = [tasks EXCEPT ![i].pc = "done", ![i].threw = r.threw]
       /\ appData' = r.ret[1]
       /\ UNCHANGED <<db, clock, last, allocC, allocR, localVars, probe, buildVars>>

NextUi ==
  \/ SubmitCustomerForm \/ ClickDeleteCustomer \/ ClickDeleteRepair
  \/ ChangeBillNote \/ WriteReturns \/ RefreshReturns

SpecUi == InitUpd /\ [][NextUi]_vars

\* ------------------------------------------- handleSaveRepair of App.tsx
\* the payload the repair form builds: deliveryDate is the time of the save
\* when the status chosen is Delivered, and undefined otherwise
RepairFormPayload(material, status, now) ==
  LET services == <<ServiceA>>
      payload == [materialDetails |-> material, services |-> services,
                  estimatedTime |-> "2d", status |-> status,
                  actualTotalCost |-> SumOfServices(services, 0)]
  IN IF status = "Delivered" THEN Put(payload, "deliveryDate", now) ELSE payload

\* the form is submitted for a new ticket of the selected customer, or for
\* the ticket that is being edited
SaveRepairForm ==
  /\ Idle
  /\ \E material \in {"laptop", "printer"}, status \in {"Pending", "Delivered"},
        t1, t2 \in Transports :
       LET now == ToISOString(clock)
           payload == RepairFormPayload(material, status, now)
       IN \/ \E editingRepairId \in Range(allocR) :
               /\ Ran("updateRepair", payload,
                      updateRepair(db, editingRepairId, payload, t1))
               /\ UNCHANGED <<clock, allocC, allocR, localVars, probe, buildVars, tasks, appData>>
          \/ \E customerId \in Range(allocC) :
               LET repair == Put(Put(payload, "customerId", customerId),
                                 "receivedDate", now)
                   r == addRepair(db, repair, now, t1, t2)
               IN /\ Len(allocR) < MaxAdds
                  /\ Ran("addRepair", repair, r)
                  /\ allocR' = IF r.threw = None THEN Append(allocR, r.newId)
                               ELSE allocR
                  /\ clock' = IF r.threw = None THEN clock + 1 ELSE clock
                  /\ UNCHANGED <<allocC, localVars, probe, buildVars, tasks, appData>>

NextSaveRepair == SaveRepairForm \/ Return

SpecSaveRepair == InitUpd /\ [][NextSaveRepair]_vars

\* --------------------------- adds with and without a received timestamp
\* a repair as a caller may pass it: receivedDate an earlier time, or left out
DatedRepairInputs(customerId) ==
  LET dated == RepairInput(customerId, ToISOString(0))
  IN {dated, [f \in DOMAIN dated \ {"receivedDate"} |-> dated[f]]}

AddRepairDated ==
  /\ Idle
  /\ \E customerId \in Range(allocC), t1, t2 \in Transports :
       \E repair \in DatedRepairInputs(customerId) :
         LET r == addRepair(db, repair, ToISOString(clock), t1, t2)
         IN /\ Len(allocR) < MaxAdds
            /\ Len(allocC) + Len(allocR) + Len(lsAllocC) + Len(lsAllocR) < MaxPairAdds
            /\ Ran("addRepair", repair, r)
            /\ allocR' = IF r.threw = None THEN Append(allocR, r.newId) ELSE allocR
            /\ clock' = IF r.threw = None THEN clock + 1 ELSE clock
            /\ UNCHANGED <<allocC, localVars, probe, buildVars, tasks, appData>>

LocalAddRepairDated ==
  /\ Idle
  /\ \E customerId \in Range(lsAllocC) :
       \E repair \in DatedRepairInputs(customerId) :
         LET r == storageAddRepair(ls, repair)
         IN /\ Len(lsAllocC) + Len(lsAllocR) < MaxLocalAdds
            /\ Len(allocC) + Len(allocR) + Len(lsAllocC) + Len(lsAllocR) < MaxPairAdds
            /\ RanLocal("storage.addRepair", r.ret.id, repair, r)
            /\ lsAllocR' = Append(lsAllocR, r.ret.id)
            /\ clock' = clock + 1
            /\ UNCHANGED <<lsAllocC, onlineVars, probe, buildVars, tasks, appData>>

NextStamps ==
  \/ AddCustomer \/ AddRepairDated \/ LocalAddCustomer \/ LocalAddRepairDated
  \/ Return

SpecStamps == Init /\ [][NextStamps]_vars

\* ------------------------------------- deleteRepair in both backends
LocalSaveLogo ==
  /\ Idle
  /\ \E logo \in LogoInputs :
       /\ RanLocal("storage.saveLogo", << >>, [logo |-> logo],
                   storageSaveLogo(ls, logo))
       /\ UNCHANGED <<clock, lsAllocC, lsAllocR, onlineVars, probe, buildVars, tasks, appData>>

\* a customer with two repairs in the store, and the same in the Local Mirror
InitDeleteRepair ==
  LET empty == [customers |-> {}, repairs |-> {}, settings |-> {}]
      customer == [name |-> "Asha", phone |-> "98", altPhone |-> "", address |-> ""]
      a == addCustomer(empty, customer, ToISOString(1), None, None)
      b == addRepair(a.db, RepairInput(a.newId, ToISOString(2)), ToISOString(2),
                     None, None)
      c == addRepair(b.db, RepairInput(a.newId, ToISOString(3)), ToISOString(3),
                     None, None)
      la == storageAddCustomer(None, customer, ToISOString(4))
      lb == storageAddRepair(la.ls, RepairInput(la.ret.id, ToISOString(5)))
      lc == storageAddRepair(lb.ls, RepairInput(la.ret.id, ToISOString(6)))
  IN /\ db = c.db
     /\ clock = 7
     /\ last = NoOp
     /\ allocC = <<a.newId>>
     /\ allocR = <<b.newId, c.newId>>
     /\ ls = lc.ls
     /\ lsAllocC = <<la.ret.id>>
     /\ lsAllocR = <<lb.ret.id, lc.ret.id>>
     /\ probe = NoProbe
     /\ supabaseUrl = ConfiguredUrl
     /\ supabaseAnonKey = ConfiguredAnonKey
     /\ tasks = << >>
     /\ appData = InitialData

NextDeleteRepair ==
  DeleteRepair \/ LocalDeleteRepair \/ SaveLogo \/ LocalSaveLogo \/ Return

SpecDeleteRepair == InitDeleteRepair /\ [][NextDeleteRepair]_vars

\* ------------------------------------ every operation of databaseService
\* one call of any operation, with every input and every answer of the store,
\* on a store that holds customers and a repair, with or without a logo
NextGateway ==
  \/ AddCustomer \/ AddRepair \/ UpdateCustomer \/ UpdateRepair
  \/ DeleteCustomer \/ DeleteRepair \/ SaveLogo \/ Fetch

InitGateway ==
  LET empty == [customers |-> {}, repairs |-> {}, settings |-> {}]
      customer == [name |-> "Asha", phone |-> "98", altPhone |-> "", address |-> ""]
      a == addCustomer(empty, customer, ToISOString(1), None, None)
      b == addRepair(a.db, RepairInput(a.newId, ToISOString(2)), ToISOString(2),
                     None, None)
      withLogo == StoreUpsert(b.db, "settings",
                    [key |-> "logo", value |-> "data:image/png;base64,AAAA"],
                    "key", None, ToISOString(3))
  IN /\ db \in {b.db, withLogo.db}
     /\ clock = 4
     /\ last = NoOp
     /\ allocC = <<a.newId>>
     /\ allocR = <<b.newId>>
     /\ ls = None
     /\ lsAllocC = << >>
     /\ lsAllocR = << >>
     /\ probe = NoProbe
     /\ supabaseUrl = ConfiguredUrl
     /\ supabaseAnonKey = ConfiguredAnonKey
     /\ tasks = << >>
     /\ appData = InitialData

SpecGateway == InitGateway /\ [][NextGateway]_vars

\* ---------------------------------------------- loadData on stored texts
\* what the storage key holds after at most n adds of the Local Mirror
RECURSIVE StoredAfter(_)
StoredAfter(n) ==
  IF n = 0 THEN {None}
  ELSE LET before == StoredAfter(n - 1)
       IN before
            \cup {storageAddCustomer(item, c, ToISOString(n)).ls :
                    item \in before, c \in CustomerInputs}
            \cup {storageAddRepair(item,
                     RepairInput(FormatId("C", StorageIdStartBase), ToISOString(n))).ls :
                    item \in before}

IdsOf(list) == [i \in DOMAIN list |-> list[i].id]

\* the key holds nothing, a text the Local Mirror wrote, or a text that is
\* not JSON
InitLoad ==
  /\ ls \in StoredAfter(MaxLocalAdds) \cup {Some(EmptyText), Some(TruncatedText)}
  /\ lsAllocC = IF loadDataThrows(ls) THEN << >> ELSE IdsOf(loadData(ls).customers)
  /\ lsAllocR = IF loadDataThrows(ls) THEN << >> ELSE IdsOf(loadData(ls).repairs)
  /\ db = [customers |-> {}, repairs |-> {}, settings |-> {}]
  /\ clock = MaxLocalAdds + 1
  /\ last = NoOp
  /\ allocC = << >>
  /\ allocR = << >>
  /\ probe = NoProbe
  /\ supabaseUrl = ConfiguredUrl
  /\ supabaseAnonKey = ConfiguredAnonKey
  /\ tasks = << >>
  /\ appData = InitialData

LocalLoad ==
  /\ Idle
  /\ last' = [op |-> "storage.loadData", id |-> << >>, arg |-> EmptyObject,
              calls |-> << >>,
              threw |-> IF loadDataThrows(ls) THEN Some(SyntaxError) ELSE None,
              ret |-> IF loadDataThrows(ls) THEN None ELSE Some(loadData(ls))]
  /\ UNCHANGED <<clock, onlineVars, localVars, probe, buildVars, tasks, appData>>

NextLoad == LocalLoad \/ Return

SpecLoad == InitLoad /\ [][NextLoad]_vars

\* ------------------------------------ fetchAppState, followed read by read
\* a slip: each read awaited before the next one is built
ReadsIssuedInTurn(completed) == 
  1..(IF completed = 1..3 THEN 3 ELSE Cardinality(completed) + 1)

\* await Promise.all([customers read, repairs read, settings read]): the three
\* builders are all in the array before Promise.all waits for any of them
ReadsIssued(completed) == 1..3

ReadResult(d, k, outcome) ==
  IF k = 1 THEN StoreSelect(d, "customers", outcome.error)
  ELSE IF k = 2 THEN StoreSelect(d, "repairs", outcome.error)
  ELSE StoreSelectMaybeSingle(d, "settings", "key", "logo", outcome.error)

\* fetchAppState() is called: it returns at once when not configured, and
\* otherwise goes to the await with its reads issued
CallFetch ==
  /\ Len(tasks) < MaxFetches
  /\ LET task == NewTask("fetchAppState", "reads", << >>)
     IN tasks' = Append(tasks,
          IF ~isConfigured
            THEN [task EXCEPT !.pc = "done",
                              !.ret = Some([customers |-> {}, repairs |-> {}])]
          ELSE [task EXCEPT !.issued = ReadsIssued({})])
  /\ UNCHANGED <<db, clock, last, allocC, allocR, localVars, probe, buildVars, appData>>

\* one read that is in flight settles. Promise.all rejects with the first
\* rejection, and is fulfilled when the last of the three is
ReadCompletes ==
  \E i \in DOMAIN tasks, outcome \in ReadOutcomes :
    \E k \in tasks[i].issued \ tasks[i].completed :
      LET task == tasks[i]
          results == (k :> ReadResult(db, k, outcome)) @@ task.arg
          completed == task.completed \cup {k}
          caught == FetchCaught(outcome.error[1])
      IN /\ task.op = "fetchAppState"
         /\ task.pc = "reads"
         /\ tasks' = [tasks EXCEPT ![i] =
              IF outcome.rejects
                THEN [task EXCEPT !.completed = completed, !.pc = "done",
                                  !.rejected = {k},
                                  !.threw = caught.threw, !.ret = caught.ret]
              ELSE IF completed = 1..3
                THEN [task EXCEPT !.completed = completed, !.arg = results,
                                  !.pc = "done",
                                  !.ret = Some(FetchedState(results[1], results[2],
                                                 results[3], ToISOString(clock)))]
              ELSE [task EXCEPT !.completed = completed, !.arg = results,
                                !.issued = ReadsIssued(completed)]]
         /\ UNCHANGED <<db, clock, last, allocC, allocR, localVars, probe, buildVars, appData>>

NextFetchSteps == CallFetch \/ ReadCompletes

SpecFetchSteps == InitFetch /\ [][NextFetchSteps]_vars

\* ---------------------------------- refreshData, its fetch still on the way
\* the store answers the reads of a refresh that has been issued; the answer
\* is on its way back to the page
FetchServed ==
  \E i \in DOMAIN tasks, reads \in FetchReads :
    LET r == fetchAppState(db, ToISOString(clock), reads)
    IN /\ tasks[i].pc = "refresh"
       /\ tasks' = [tasks EXCEPT ![i].pc = "fetched", ![i].ret = r.ret]
       /\ UNCHANGED <<db, clock, last, allocC, allocR, localVars, probe, buildVars, appData>>

\* const state = await fetchAppState(); setData(state): whichever answer
\* arrives is shown
SetData ==
  \E i \in DOMAIN tasks :
    /\ tasks[i].pc = "fetched"
    /\ appData' = tasks[i].ret[1]
    /\ tasks' = [tasks EXCEPT ![i].pc = "done"]
    /\ UNCHANGED <<db, clock, last, allocC, allocR, localVars, probe, buildVars>>

NextRefresh ==
  \/ SubmitCustomerForm \/ ClickDeleteCustomer \/ ClickDeleteRepair
  \/ ChangeBillNote \/ WriteReturns \/ FetchServed \/ SetData

SpecRefresh == InitUpd /\ [][NextRefresh]_vars

\* the URL or the key is empty, or the URL is the placeholder
NotConfiguredBuild ==
  supabaseUrl \in {"", placeholderUrl} \/ supabaseAnonKey = ""

\* a bundle built without the project URL or without the key, or with the
\* placeholder URL; the store, which no call of it reaches, holds a customer
\* and a repair whose identifiers the caller knows
InitNotConfigured ==
  LET empty == [customers |-> {}, repairs |-> {}, settings |-> {}]
      a == StoreInsert(empty, "customers",
             AddCustomerPayload(FormatId("C", 1001), [name |-> "Asha", phone |-> "98"],
                                ToISOString(1)), None, ToISOString(1))
      b == StoreInsert(a.db, "repairs",
             AddRepairPayload(FormatId("R", 1001),
                              RepairInput(FormatId("C", 1001), ToISOString(2))),
             None, ToISOString(2))
  IN /\ db = b.db
     /\ clock = 3
     /\ last = NoOp
     /\ allocC = <<FormatId("C", 1001)>>
     /\ allocR = <<FormatId("R", 1001)>>
     /\ ls = None
     /\ lsAllocC = << >>
     /\ lsAllocR = << >>
     /\ probe = NoProbe
     /\ supabaseUrl \in {ConfiguredUrl, placeholderUrl, ""}
     /\ supabaseAnonKey \in {ConfiguredAnonKey, ""}
     /\ tasks = << >>
     /\ appData = InitialData
     /\ NotConfiguredBuild

NextNotConfigured ==
  \/ AddCustomer \/ AddRepair \/ UpdateCustomer \/ UpdateRepair
  \/ DeleteCustomer \/ DeleteRepair \/ SaveLogo \/ Fetch \/ Return

SpecNotConfigured == InitNotConfigured /\ [][NextNotConfigured]_vars

\* the same sequence of operations given to both backends, the store
\* answering every call; the i-th entity of a kind is the one the i-th
\* successful add of that kind returned, in each backend
PairCustomerUpdates == {[address |-> "Pune"], [name |-> "Asha", phone |-> ""]}

PairRepairUpdates == {[status |-> "Delivered", deliveryDate |-> ToISOString(9)]}

InBoth(a, b) == 1..(IF Len(a) < Len(b) THEN Len(a) ELSE Len(b))

BothAddCustomer ==
  \E customer \in CustomerInputs :
    LET r == addCustomer(db, customer, ToISOString(clock), None, None)
        l == storageAddCustomer(ls, customer, ToISOString(clock))
    IN /\ Len(lsAllocC) + Len(lsAllocR) < MaxPairAdds
       /\ db' = r.db
       /\ ls' = l.ls
       /\ allocC' = IF r.threw = None THEN Append(allocC, r.newId) ELSE allocC
       /\ lsAllocC' = Append(lsAllocC, l.ret.id)
       /\ clock' = clock + 1
       /\ UNCHANGED <<allocR, lsAllocR, last, probe, buildVars, tasks, appData>>

BothAddRepair ==
  \E i \in InBoth(allocC, lsAllocC) :
    LET r == addRepair(db, RepairInput(allocC[i], ToISOString(clock)),
                       ToISOString(clock), None, None)
        l == storageAddRepair(ls, RepairInput(lsAllocC[i], ToISOString(clock)))
    IN /\ Len(lsAllocC) + Len(lsAllocR) < MaxPairAdds
       /\ db' = r.db
       /\ ls' = l.ls
       /\ allocR' = IF r.threw = None THEN Append(allocR, r.newId) ELSE allocR
       /\ lsAllocR' = Append(lsAllocR, l.ret.id)
       /\ clock' = clock + 1
       /\ UNCHANGED <<allocC, lsAllocC, last, probe, buildVars, tasks, appData>>

BothUpdateCustomer ==
  \E i \in InBoth(allocC, lsAllocC), updates \in PairCustomerUpdates :
    /\ db' = updateCustomer(db, allocC[i], updates, None).db
    /\ ls' = storageUpdateCustomer(ls, lsAllocC[i], updates).ls
    /\ UNCHANGED <<clock, allocC, allocR, lsAllocC, lsAllocR, last, probe, buildVars, tasks, appData>>

BothUpdateRepair ==
  \E i \in InBoth(allocR, lsAllocR), updates \in PairRepairUpdates :
    /\ db' = updateRepair(db, allocR[i], updates, None).db
    /\ ls' = storageUpdateRepair(ls, lsAllocR[i], updates).ls
    /\ UNCHANGED <<clock, allocC, allocR, lsAllocC, lsAllocR, last, probe, buildVars, tasks, appData>>

BothDeleteCustomer ==
  \E i \in InBoth(allocC, lsAllocC) :
    /\ db' = deleteCustomer(db, allocC[i], None, None).db
    /\ ls' = storageDeleteCustomer(ls, lsAllocC[i]).ls
    /\ UNCHANGED <<clock, allocC, allocR, lsAllocC, lsAllocR, last, probe, buildVars, tasks, appData>>

BothDeleteRepair ==
  \E i \in InBoth(allocR, lsAllocR) :
    /\ db' = deleteRepair(db, allocR[i], None).db
    /\ ls' = storageDeleteRepair(ls, lsAllocR[i]).ls
    /\ UNCHANGED <<clock, allocC, allocR, lsAllocC, lsAllocR, last, probe, buildVars, tasks, appData>>

NextPair ==
  \/ BothAddCustomer \/ BothAddRepair \/ BothUpdateCustomer
  \/ BothUpdateRepair \/ BothDeleteCustomer \/ BothDeleteRepair

SpecPair == Init /\ [][NextPair]_vars

\* every operation of both backends
Next ==
  \/ NextOnline \/ NextUpd \/ NextLocal \/ AllocateOnline \/ RenderBill
  \/ AllocateLocal \/ NextPair \/ NextLocalUpd \/ ClassifyError
  \/ NextFetch \/ NextNotConfigured \/ NextLogo
  \/ NextMapper \/ NextRace \/ NextUi \/ NextFetchSteps \/ NextLoad
  \/ NextGateway \/ NextSaveRepair \/ NextStamps
  \/ NextDeleteRepair \/ NextRefresh

Spec == Init /\ [][Next]_vars

\* ----------------------------------------------------------------- claims
NoRepeat(seq) == \A i, j \in 1..Len(seq) : i # j => seq[i] # seq[j]

IsAdd(op) == op \in {"addCustomer", "addRepair"}
IsUpdate(op) == op \in {"updateCustomer", "updateRepair"}

\* the store column of each field of a partial update
FieldColumn ==
  [name |-> "name", phone |-> "phone", altPhone |-> "alt_phone",
   address |-> "address", materialDetails |-> "material_details",
   services |-> "services", estimatedTime |-> "estimated_time",
   status |-> "status", deliveryDate |-> "delivery_date",
   billNote |-> "bill_note", actualTotalCost |-> "actual_total_cost"]

\* C1: over any sequence of online adds and deletes, no identifier returned
\* by Add Customer (or by Add RepairJob) equals one returned earlier for that
\* kind, also when the earlier entity has been deleted.
OnlineIdsNeverReused == NoRepeat(allocC) /\ NoRepeat(allocR)

\* C2: in the Local Mirror the number of each newly allocated identifier is
\* strictly greater than the number of every identifier allocated before it
\* for that kind, also after the highest-numbered entity was deleted.
LocalIdNumbersIncrease ==
  /\ \A i, j \in 1..Len(lsAllocC) :
       i < j => IdNumber(lsAllocC[i]) < IdNumber(lsAllocC[j])
  /\ \A i, j \in 1..Len(lsAllocR) :
       i < j => IdNumber(lsAllocR[i]) < IdNumber(lsAllocR[j])

\* C3: in every state the Local Mirror reaches by adds and deletes, no two
\* stored Customers share an identifier and no two stored RepairJobs do.
LocalStoredIdsUnique ==
  LET data == loadData(ls)
  IN /\ \A i, j \in 1..Len(data.customers) :
          i # j => data.customers[i].id # data.customers[j].id
     /\ \A i, j \in 1..Len(data.repairs) :
          i # j => data.repairs[i].id # data.repairs[j].id

\* three customers were added, the first of them was deleted before the third
\* add, and the two that remain are stored
LocalAddAfterDeleteStored ==
  LET data == loadData(ls)
  IN /\ Len(lsAllocC) = 3
     /\ Len(data.customers) = 2
     /\ data.customers[1].id = lsAllocC[2]
     /\ data.customers[2].id = lsAllocC[3]
     /\ last.op = "storage.addCustomer"

\* C4: Delete Customer issues the delete of the RepairJobs whose customer_id
\* is the customer before the delete of the Customer row, and when it returns
\* without an error no stored RepairJob references the deleted Customer.
DeleteCustomerCascadesFirst ==
  last.op = "deleteCustomer" =>
    /\ \A j \in 1..Len(last.calls) :
         (last.calls[j].table = "customers" /\ last.calls[j].verb = "delete") =>
           \E i \in 1..(j - 1) :
             /\ last.calls[i].table = "repairs"
             /\ last.calls[i].verb = "delete"
             /\ last.calls[i].eq = <<"customer_id", last.id>>
    /\ \E j \in 1..Len(last.calls) :
         /\ last.calls[j].table = "customers"
         /\ last.calls[j].verb = "delete"
         /\ last.calls[j].eq = <<"id", last.id>>
    /\ last.threw = None =>
         /\ \A r \in db.repairs : r.customer_id # Some(last.id)
         /\ \A c \in db.customers : c.id # Some(last.id)

\* the only customer, for whom two repairs were added, has been deleted with
\* both store calls succeeding, and nothing is left of it
CustomerWithRepairsDeleted ==
  /\ last.op = "deleteCustomer"
  /\ last.threw = None
  /\ last.calls[1].error = None
  /\ Len(allocC) = 1
  /\ Len(allocR) = 2
  /\ db.customers = {}
  /\ db.repairs = {}

\* C5: when the store reports an error for the cascade delete, the Customer
\* row delete is not issued and that error is thrown to the caller.
CascadeErrorStopsDelete ==
  (last.op = "deleteCustomer" /\ last.calls[1].error # None) =>
    /\ Len(last.calls) = 1
    /\ last.threw = last.calls[1].error

\* C6: every mapped field present in the partial update is in the update
\* payload with its value, also when the value is falsy.
ExplicitFieldsReachPayload ==
  IsUpdate(last.op) =>
    \A f \in DOMAIN last.arg :
      /\ Has(last.calls[1].body, FieldColumn[f])
      /\ last.calls[1].body[FieldColumn[f]] = last.arg[f]

\* C7: a field omitted from the partial update is no key of the update
\* payload, and the update leaves the stored value of every omitted field of
\* every row as it was.
OmittedFieldsStayOut ==
  [][IsUpdate(last'.op) =>
       LET call == last'.calls[1]
           present == {FieldColumn[f] : f \in DOMAIN last'.arg}
       IN /\ DOMAIN call.body \subseteq present
          /\ \A r \in db[call.table] :
               \E r2 \in db'[call.table] :
                 /\ r2.id = r.id
                 /\ \A c \in TableColumns[call.table] \ present : r2[c] = r[c]]_vars

\* an update of billNote alone has set the note and left the status and the
\* total of the repair as they were added
OnlyBillNoteUpdated ==
  /\ last.op = "updateRepair"
  /\ last.threw = None
  /\ DOMAIN last.arg = {"billNote"}
  /\ last.arg.billNote = "Paid"
  /\ \E r \in db.repairs :
       /\ r.id = Some(last.id)
       /\ r.bill_note = Some("Paid")
       /\ r.status = Some("Pending")
       /\ r.actual_total_cost = Some(300)
       /\ r.services = Some(<<ServiceA>>)

\* C8: the billable total is actualTotalCost whenever it is present, 0
\* included, and the sum of the service costs only when it is absent.
BillTotalPrefersActual ==
  probe.fn = "totalPayable" =>
    IF Has(probe.in, "actualTotalCost")
      THEN probe.out = Some(probe.in.actualTotalCost)
    ELSE probe.out = Some(SumOfServices(probe.in.services, 0))

\* C9: for a reported count n the online allocator gives the prefix, a
\* hyphen and 1000 + n + 1 zero-padded to 6 digits: n = 7 gives C-001008 and
\* n = 0 gives C-001001, and likewise with prefix R.
OnlineIdFromCount ==
  (probe.fn = "OnlineNewId" /\ probe.in.count # None) =>
    LET n == probe.in.count[1]
        id == probe.out[1]
        digits == SubSeq(id, 3, Len(id))
    IN /\ id[1] = probe.in.prefix
       /\ id[2] = "-"
       /\ \A i \in 1..Len(digits) : IsDigit(digits[i])
       /\ DigitsValue(digits, 0) = 1000 + n + 1
       /\ Len(digits) >= 6
       /\ Len(digits) > 6 => digits[1] # "0"
       /\ n = 7 => digits = <<"0", "0", "1", "0", "0", "8">>
       /\ n = 0 => digits = <<"0", "0", "1", "0", "0", "1">>

\* the allocator was given count 7 for a customer and gave C-001008
CountSevenGivesC001008 ==
  /\ probe.fn = "OnlineNewId"
  /\ probe.in = [prefix |-> "C", count |-> Some(7)]
  /\ probe.out = Some(<<"C", "-", "0", "0", "1", "0", "0", "8">>)

\* C10, as stated: the number of a new online identifier is 1000 plus the row
\* count the store reported.
OnlineNumberIsBasePlusCount ==
  (IsAdd(last.op) /\ last.calls[1].count # None) =>
    IdNumber(last.id) = 1000 + last.calls[1].count[1]

\* C10, amended: the number of a new online identifier is 1000 plus the row
\* count the store reported plus 1, and the identifier is the prefix of the
\* kind, a hyphen and that number as 6 zero-padded digits.
OnlineNumberIsBasePlusCountPlusOne ==
  (IsAdd(last.op) /\ last.calls[1].count # None) =>
    /\ IdNumber(last.id) = 1000 + last.calls[1].count[1] + 1
    /\ Len(last.id) = 8
    /\ last.id[1] = (IF last.op = "addCustomer" THEN "C" ELSE "R")
    /\ last.id[2] = "-"
    /\ \A i \in 3..8 : IsDigit(last.id[i])
    /\ last.calls[2].body.id = last.id

\* with one repair stored, Add RepairJob was told count 1, computed R-001002
\* and inserted it
SecondRepairGetsR001002 ==
  /\ last.op = "addRepair"
  /\ last.threw = None
  /\ last.calls[1].count = Some(1)
  /\ last.id = <<"R", "-", "0", "0", "1", "0", "0", "2">>
  /\ \E r \in db.repairs : r.id = Some(last.id)

\* C11: the Local Mirror allocator gives the prefix, a hyphen and, as 6
\* zero-padded digits, the greatest number among the existing identifiers of
\* the kind plus 1, however many entities exist, and 1000 when none exists.
LocalIdIsMaxPlusOne ==
  probe.fn = "StorageNewId" =>
    LET list == probe.in.list
        nums == {IdNumber(list[i].id) : i \in 1..Len(list)}
        greatest == CHOOSE n \in nums : \A m \in nums : m <= n
        id == probe.out[1]
    IN /\ IdNumber(id) = (IF nums = {} THEN 1000 ELSE greatest + 1)
       /\ Len(id) = 8
       /\ id[1] = probe.in.prefix
       /\ id[2] = "-"
       /\ \A i \in 3..8 : IsDigit(id[i])

\* with R-001000 and R-001003 stored the allocator gave R-001004
TwoStoredGiveR001004 ==
  /\ probe.fn = "StorageNewId"
  /\ probe.in.prefix = "R"
  /\ Len(probe.in.list) = 2
  /\ probe.in.list[1].id = <<"R", "-", "0", "0", "1", "0", "0", "0">>
  /\ probe.in.list[2].id = <<"R", "-", "0", "0", "1", "0", "0", "3">>
  /\ probe.out = Some(<<"R", "-", "0", "0", "1", "0", "0", "4">>)

\* what a caller sees of the entities a backend holds
OnlineCustomersSeen ==
  {[id |-> c.id[1], name |-> c.name[1], phone |-> c.phone[1],
    address |-> c.address] : c \in db.customers}

LocalCustomersSeen ==
  {[id |-> c.id, name |-> c.name, phone |-> c.phone,
    address |-> IF Has(c, "address") THEN Some(c.address) ELSE None] :
     c \in Range(loadData(ls).customers)}

OnlineRepairsSeen ==
  {[id |-> r.id[1], customerId |-> r.customer_id[1], status |-> r.status[1],
    deliveryDate |-> r.delivery_date] : r \in db.repairs}

LocalRepairsSeen ==
  {[id |-> r.id, customerId |-> r.customerId, status |-> r.status,
    deliveryDate |-> IF Has(r, "deliveryDate") THEN Some(r.deliveryDate) ELSE None] :
     r \in Range(loadData(ls).repairs)}

\* C12: given the same sequence of adds, updates and deletes from an empty
\* store, with the store answering every call, the Sync Gateway and the
\* Local Mirror return the same identifier from each add and hold the same
\* Customers and RepairJobs.
BackendsAgree ==
  /\ \A i \in InBoth(allocC, lsAllocC) : allocC[i] = lsAllocC[i]
  /\ \A i \in InBoth(allocR, lsAllocR) : allocR[i] = lsAllocR[i]
  /\ OnlineCustomersSeen = LocalCustomersSeen
  /\ OnlineRepairsSeen = LocalRepairsSeen

IsLocalUpdate(op) == op \in {"storage.updateCustomer", "storage.updateRepair"}

\* C13: an Update Customer or Update RepairJob, in either backend and
\* whatever the partial update carries, leaves the identifier of every stored
\* entity and the creation timestamp of every stored Customer as they were.
UpdateKeepsIdAndCreatedAt ==
  [][/\ IsUpdate(last'.op) =>
          /\ \A c \in db.customers : \E c2 \in db'.customers :
                c2.id = c.id /\ c2.created_at = c.created_at
          /\ \A r \in db.repairs : \E r2 \in db'.repairs : r2.id = r.id
     /\ IsLocalUpdate(last'.op) =>
          LET old == loadData(ls)
              new == loadData(ls')
          IN /\ Len(new.customers) = Len(old.customers)
             /\ Len(new.repairs) = Len(old.repairs)
             /\ \A i \in 1..Len(old.customers) :
                  /\ new.customers[i].id = old.customers[i].id
                  /\ new.customers[i].createdAt = old.customers[i].createdAt
             /\ \A i \in 1..Len(old.repairs) :
                  new.repairs[i].id = old.repairs[i].id]_vars

\* C14: in every state reached by adds, updates and deletes, the customerId
\* of every stored RepairJob is the identifier of a stored Customer, in the
\* Sync Gateway's store and in the Local Mirror's blob.
RepairsReferenceStoredCustomers ==
  /\ \A r \in db.repairs : \E c \in db.customers : c.id = r.customer_id
  /\ LET data == loadData(ls)
     IN \A i \in 1..Len(data.repairs) :
          \E j \in 1..Len(data.customers) :
            data.customers[j].id = data.repairs[i].customerId

\* the words of pattern are in text at some position, one after the other
Contains(text, pattern) ==
  \E i \in 1..(Len(text) - Len(pattern) + 1) :
    \A j \in 1..Len(pattern) : text[i + j - 1] = pattern[j]

\* C15: the Schema Guard classifies an error as schema-missing exactly when
\* its code is PGRST205, or its message contains 'schema cache', or its
\* message contains 'does not exist'; no error, and an error with none of
\* the three, are not schema-missing.
GuardExactlyThreeSignals ==
  probe.fn = "isTableMissingError" =>
    LET error == probe.in.error
        signal ==
          /\ error # None
          /\ \/ Has(error[1], "code") /\ error[1].code = "PGRST205"
             \/ Has(error[1], "message")
                  /\ Contains(error[1].message, <<"schema", "cache">>)
             \/ Has(error[1], "message")
                  /\ Contains(error[1].message, <<"does", "not", "exist">>)
    IN probe.out = Some(signal)

\* an error whose code is not PGRST205 and whose message is 'does not
\* exist' was classified as schema-missing, by its message alone
GuardSawDoesNotExist ==
  /\ probe.fn = "isTableMissingError"
  /\ probe.in.error = Some([code |-> "PGRST116", message |-> <<"does", "not", "exist">>])
  /\ probe.out = Some(TRUE)

IsFetch3 == last.op = "fetchAppState" /\ Len(last.arg.reads) = 3

\* the read returned (did not reject) with an error the Schema Guard
\* classifies as schema-missing
ReturnedMissing(read) == ~read.rejects /\ isTableMissingError(read.error)

ReadSucceeded(read) == ~read.rejects /\ read.error = None

\* every stored customer (repair) is in the fetched state, field by field,
\* and nothing else is
AllCustomersFetched(state) ==
  /\ Cardinality(state.customers) = Cardinality(db.customers)
  /\ \A row \in db.customers : \E c \in state.customers :
       /\ c.id = row.id /\ c.name = row.name /\ c.phone = row.phone
       /\ c.altPhone = row.alt_phone /\ c.address = row.address
       /\ c.createdAt = row.created_at

AllRepairsFetched(state) ==
  /\ Cardinality(state.repairs) = Cardinality(db.repairs)
  /\ \A row \in db.repairs : \E r \in state.repairs :
       /\ r.id = row.id /\ r.customerId = row.customer_id
       /\ r.materialDetails = row.material_details /\ r.services = row.services
       /\ r.status = row.status /\ r.receivedDate = row.received_date
       /\ r.actualTotalCost = row.actual_total_cost

OneMissingKeepsOther ==
  LET reads == last.arg.reads
      state == last.ret[1]
  IN /\ last.threw = None
     /\ Has(state, "tablesMissing") /\ state.tablesMissing
     /\ ReadSucceeded(reads[1]) => AllCustomersFetched(state)
     /\ ReadSucceeded(reads[2]) => AllRepairsFetched(state)

OneRequiredReadMissing ==
  LET reads == last.arg.reads
  IN \/ ReturnedMissing(reads[1]) /\ ReadSucceeded(reads[2])
     \/ ReturnedMissing(reads[2]) /\ ReadSucceeded(reads[1])

\* C16, as stated: when exactly one of the customers read and the repairs
\* read returns a schema-missing error and the other succeeds, Fetch state
\* returns tablesMissing = true and all rows of the successful read.
FetchOneMissingKeepsOther ==
  (IsFetch3 /\ OneRequiredReadMissing) => OneMissingKeepsOther

\* C16, amended: when exactly one of the customers read and the repairs read
\* returns a schema-missing error, the other succeeds and the settings read
\* does not throw, Fetch state returns tablesMissing = true and all rows of
\* the successful read.
FetchOneMissingKeepsOtherUnlessThrown ==
  (IsFetch3 /\ OneRequiredReadMissing /\ ~last.arg.reads[3].rejects) =>
    OneMissingKeepsOther

\* the customers table was missing, the repairs read succeeded, and the
\* fetched state has the flag, no customer and the stored repair
CustomersMissingRepairsFetched ==
  /\ IsFetch3
  /\ last.arg.reads[1] = [rejects |-> FALSE, error |-> Some(TableMissingError)]
  /\ ReadSucceeded(last.arg.reads[2])
  /\ ReadSucceeded(last.arg.reads[3])
  /\ last.ret[1].tablesMissing
  /\ last.ret[1].customers = {}
  /\ Cardinality(last.ret[1].repairs) = 1
  /\ \E r \in last.ret[1].repairs : r.id = Some(allocR[1])

FlagIsTrue ==
  /\ last.ret # None
  /\ Has(last.ret[1], "tablesMissing")
  /\ last.ret[1].tablesMissing

RequiredReadReturnedMissing ==
  ReturnedMissing(last.arg.reads[1]) \/ ReturnedMissing(last.arg.reads[2])

\* C17, as stated: the tablesMissing flag of Fetch state is true if and only
\* if the customers read or the repairs read returned a schema-missing
\* error, whatever the settings read came to.
FlagIffRequiredReadMissing ==
  IsFetch3 => (FlagIsTrue <=> RequiredReadReturnedMissing)

\* C17, amended: when none of the three reads throws, Fetch state returns a
\* tablesMissing flag, and it is true if and only if the customers read or
\* the repairs read returned a schema-missing error, whatever error the
\* settings read returned.
FlagIffRequiredReadMissingUnlessThrown ==
  (IsFetch3 /\ \A i \in 1..3 : ~last.arg.reads[i].rejects) =>
    /\ last.threw = None
    /\ Has(last.ret[1], "tablesMissing")
    /\ last.ret[1].tablesMissing <=> RequiredReadReturnedMissing

\* the settings table alone was missing: the flag is false and the stored
\* customers and the repair were fetched
SettingsMissingFlagFalse ==
  /\ IsFetch3
  /\ ReadSucceeded(last.arg.reads[1])
  /\ ReadSucceeded(last.arg.reads[2])
  /\ last.arg.reads[3] = [rejects |-> FALSE, error |-> Some(TableMissingError)]
  /\ last.ret[1].tablesMissing = FALSE
  /\ Cardinality(last.ret[1].customers) = 2
  /\ Cardinality(last.ret[1].repairs) = 1

\* C18: when any of the three reads of Fetch state throws, Fetch state
\* throws nothing and returns a state with no customers, no repairs and no
\* tablesMissing flag.
ThrownReadGivesEmptyState ==
  (IsFetch3 /\ \E i \in 1..3 : last.arg.reads[i].rejects) =>
    /\ last.threw = None
    /\ last.ret # None
    /\ last.ret[1].customers = {}
    /\ last.ret[1].repairs = {}
    /\ ~Has(last.ret[1], "tablesMissing")

\* the repairs read threw while the customers read returned the two stored
\* customers, and the state returned is empty
RepairsReadThrewStateEmpty ==
  /\ IsFetch3
  /\ ReadSucceeded(last.arg.reads[1])
  /\ last.arg.reads[2].rejects
  /\ ReadSucceeded(last.arg.reads[3])
  /\ Cardinality(db.customers) = 2
  /\ last.threw = None
  /\ last.ret = Some([customers |-> {}, repairs |-> {}])

\* C19: when the store is not configured, Fetch state returns the state with
\* no customers and no repairs and issues no store call.
NotConfiguredFetchIsEmpty ==
  (last.op = "fetchAppState" /\ NotConfiguredBuild) =>
    /\ last.calls = << >>
    /\ last.threw = None
    /\ last.ret # None
    /\ last.ret[1].customers = {}
    /\ last.ret[1].repairs = {}

\* a bundle built with the placeholder URL fetched: no call, the empty
\* state, while the store holds a customer
PlaceholderFetchedNothing ==
  /\ last.op = "fetchAppState"
  /\ supabaseUrl = placeholderUrl
  /\ supabaseAnonKey = ConfiguredAnonKey
  /\ last.calls = << >>
  /\ last.ret = Some([customers |-> {}, repairs |-> {}])
  /\ db.customers # {}

IsWrite(op) ==
  op \in {"addCustomer", "updateCustomer", "deleteCustomer", "addRepair",
          "updateRepair", "deleteRepair", "saveLogo"}

\* C20: when the store is not configured, every write operation of the Sync
\* Gateway (Add, Update and Delete of Customer and RepairJob, Save logo)
\* throws the configuration error and issues no store call.
NotConfiguredWritesFailFast ==
  (IsWrite(last.op) /\ NotConfiguredBuild) =>
    /\ last.calls = << >>
    /\ last.threw = Some(NotConnectedError)

\* the errors a store call can come back with
StoreErrors ==
  {NetworkError, TableMissingError, RelationMissingError, UniqueViolation,
   ForeignKeyViolation, NotNullViolation}

\* C21: Save logo in a bundle that is not configured throws the
\* configuration error, which is no store error, and issues no upsert; in a
\* configured bundle it issues one upsert, throws the setup-required error
\* when the upsert's error is schema-missing and throws any other upsert
\* error as it came.
SaveLogoErrorsSurface ==
  last.op = "saveLogo" =>
    IF NotConfiguredBuild
      THEN /\ last.calls = << >>
           /\ last.threw = Some(NotConnectedError)
           /\ NotConnectedError \notin StoreErrors
    ELSE /\ Len(last.calls) = 1
         /\ last.calls[1].table = "settings"
         /\ last.calls[1].verb = "upsert"
         /\ LET error == last.calls[1].error
            IN /\ error = None => last.threw = None
               /\ (error # None /\ isTableMissingError(error)) =>
                    /\ last.threw = Some(SettingsMissingError)
                    /\ SettingsMissingError \notin StoreErrors
               /\ (error # None /\ ~isTableMissingError(error)) =>
                    last.threw = error

\* in a configured bundle the upsert came back with 'relation ... does not
\* exist' and Save logo threw the setup-required error
LogoUpsertMissingSetupRequired ==
  /\ last.op = "saveLogo"
  /\ ~NotConfiguredBuild
  /\ last.calls[1].error = Some(RelationMissingError)
  /\ last.threw = Some(SettingsMissingError)

IsEntityWrite(op) == IsWrite(op) /\ op # "saveLogo"

\* C22: when a store call of an Add, Update or Delete of a Customer or a
\* RepairJob returns an error that is not schema-missing, the operation
\* throws that same error, and an Add returns no entity.
StoreErrorReachesCaller ==
  IsEntityWrite(last.op) =>
    \A i \in 1..Len(last.calls) :
      LET error == last.calls[i].error
      IN (error # None /\ ~isTableMissingError(error)) =>
           /\ last.threw # None
           /\ \E j \in 1..Len(last.calls) : last.threw = last.calls[j].error
           /\ last.threw[1].message = error[1].message
           /\ last.ret = None

\* C23: when the delete of the Customer row fails after the cascade delete
\* succeeded, Delete Customer throws that error, the Customer stays stored
\* and the RepairJobs of the customer are gone from the store.
FailedDeleteKeepsCascade ==
  [][(/\ last'.op = "deleteCustomer"
      /\ last'.calls[1].error = None
      /\ last'.calls[2].error # None) =>
       /\ last'.threw = last'.calls[2].error
       /\ db'.customers = db.customers
       /\ db'.repairs = {r \in db.repairs : r.customer_id # Some(last'.id)}]_vars

\* the customer for whom two repairs were added is still stored after a
\* Delete Customer whose cascade succeeded and whose row delete failed, and
\* no repair is
CustomerKeptRepairsGone ==
  /\ last.op = "deleteCustomer"
  /\ last.calls[1].error = None
  /\ last.threw = Some(NetworkError)
  /\ Len(allocC) = 1
  /\ Len(allocR) = 2
  /\ \E c \in db.customers : c.id = Some(last.id)
  /\ db.repairs = {}

\* C24: for every field the Field Mapper recognizes, an entity mapped to a
\* store row as Add does and mapped back as Fetch state does has the value
\* it had, and a row mapped to an entity and back to a row is the row it
\* was.
MapperRoundTrip ==
  /\ probe.fn = "mapCustomer" =>
       /\ \A f \in CustomerFields \cap DOMAIN probe.in :
            /\ Has(probe.out[1].mapped, f)
            /\ probe.out[1].mapped[f] = Some(probe.in[f])
       /\ probe.out[1].again = probe.out[1].row
  /\ probe.fn = "mapRepair" =>
       /\ \A f \in RepairFields \cap DOMAIN probe.in :
            /\ Has(probe.out[1].mapped, f)
            /\ probe.out[1].mapped[f] = Some(probe.in[f])
       /\ probe.out[1].again = probe.out[1].row

\* the count query of the add has returned a count and its insert has not
\* returned yet
Counted(task) ==
  IsAdd(task.op) /\ task.pc = "insert" /\ task.count # None

\* C25: two Add Customer (or two Add RepairJob) calls whose count queries
\* both returned a count, with no add of the kind completed between the two
\* and neither insert returned yet, have computed the same identifier.
RacingAddsComputeSameId ==
  \A i, j \in DOMAIN tasks :
    (/\ i # j
     /\ tasks[i].op = tasks[j].op
     /\ Counted(tasks[i]) /\ Counted(tasks[j])
     /\ tasks[i].before = tasks[j].before) =>
      tasks[i].newId = tasks[j].newId

\* two Add Customer calls were in flight together: both computed C-001002,
\* the first insert stored it and the second was rejected as a duplicate
RaceReached ==
  /\ Len(tasks) = 2
  /\ tasks[1].op = "addCustomer" /\ tasks[2].op = "addCustomer"
  /\ tasks[1].newId = tasks[2].newId
  /\ tasks[1].before = tasks[2].before
  /\ tasks[1].pc = "done" /\ tasks[1].threw = None
  /\ tasks[2].pc = "done" /\ tasks[2].threw = Some(UniqueViolation)

\* the handlers whose store operation (the write or the refresh after it)
\* has been called and has not returned
UiInFlight ==
  {i \in DOMAIN tasks : tasks[i].pc \in {"write", "refresh"}}

\* C26: at no time are two store operations of user-triggered actions (a
\* save, a delete, a bill-note update, or the refresh that follows them) in
\* flight at once.
UiOneOperationAtATime == Cardinality(UiInFlight) <= 1

FetchTasks == {i \in DOMAIN tasks : tasks[i].op = "fetchAppState"}

\* C27: while a configured Fetch state waits, all three reads have been issued
\* whichever of them have completed, and none that completed threw; it has its
\* result exactly when all three have completed or one of them has thrown.
FetchReadsTogether ==
  \A i \in FetchTasks :
    LET task == tasks[i]
    IN /\ task.pc = "reads" =>
            /\ task.issued = 1..3
            /\ task.completed # 1..3
            /\ task.rejected = {}
       /\ (task.pc = "done" /\ isConfigured) =>
            \/ task.completed = 1..3 /\ task.rejected = {}
            \/ /\ task.rejected # {}
               /\ task.ret = Some([customers |-> {}, repairs |-> {}])

\* a Fetch state has its result from a read that threw while the two other
\* reads are still in flight
FetchDoneOnFirstThrow ==
  \E i \in FetchTasks :
    /\ tasks[i].pc = "done"
    /\ tasks[i].rejected = {2}
    /\ tasks[i].completed = {2}
    /\ tasks[i].issued = 1..3

LogoRows(d) == {r \in d.settings : r.key = Some("logo")}

\* the reads of a fetch of which none threw and the settings read came back
\* without an error
LogoReadArrived(reads) ==
  /\ \A k \in 1..3 : ~reads[k].rejects
  /\ reads[3].error = None

Stored(item) == item # None

\* C29: a Local Mirror load with nothing stored returns the state with no
\* customers and no repairs; a load with a stored text that cannot be parsed
\* throws and returns nothing.
LoadEmptyOrFails ==
  last.op = "storage.loadData" =>
    /\ ~Stored(ls) =>
         /\ last.threw = None
         /\ last.ret = Some([customers |-> << >>, repairs |-> << >>])
    /\ (Stored(ls) /\ ~JsonParses(ls[1])) =>
         /\ last.threw # None
         /\ last.ret = None

\* C30: whatever the store answers, the store calls of one databaseService
\* operation are pairwise different: no table is sent the same kind of call
\* twice by one operation.
NoCallIssuedTwice ==
  \A i, j \in DOMAIN last.calls :
    (last.calls[i].table = last.calls[j].table
       /\ last.calls[i].verb = last.calls[j].verb) => i = j

\* a deleteRepair whose delete came back with an error, a deleteCustomer
\* whose cascade did, or an add whose insert did, has ended
FailedCallNotRepeated ==
  /\ last.op \in {"deleteRepair", "deleteCustomer", "addCustomer", "addRepair"}
  /\ last.calls # << >>
  /\ last.calls[Len(last.calls)].error # None
  /\ last.threw # None

SavedAsDelivered ==
  /\ last.op \in {"addRepair", "updateRepair"}
  /\ last.threw = None
  /\ Has(last.arg, "status") /\ last.arg.status = "Delivered"
  /\ Has(last.arg, "deliveryDate") /\ TruthyStamp(last.arg.deliveryDate)

\* C31: after an Add RepairJob or Update RepairJob that did not throw and was
\* given status Delivered with a delivery date, the stored repair of that
\* identifier has that delivery date.
DeliveredSaveStoresDeliveryDate ==
  SavedAsDelivered =>
    \A r \in db.repairs :
      r.id = Some(last.id) => r.delivery_date = Some(last.arg.deliveryDate)

\* the time the add that has just ended took as now: a successful add moves
\* the clock on by one
AddedAt == ToISOString(clock - 1)

\* C32: after a successful Add Customer the stored customer's creation
\* timestamp is the time of the add, and after a successful Add RepairJob the
\* stored repair's received timestamp is the supplied one or, with none
\* supplied, the time of the add; in both backends the timestamp is present.
AddStoresTimestamp ==
  /\ (last.op = "addCustomer" /\ last.threw = None) =>
       \E c \in db.customers :
         c.id = Some(last.id) /\ c.created_at = Some(AddedAt)
  /\ (last.op = "addRepair" /\ last.threw = None) =>
       \E r \in db.repairs :
         /\ r.id = Some(last.id)
         /\ r.received_date = Some(IF Has(last.arg, "receivedDate")
                                     THEN last.arg.receivedDate ELSE AddedAt)
  /\ last.op = "storage.addCustomer" =>
       \E c \in Range(loadData(ls).customers) :
         c.id = last.id /\ Has(c, "createdAt") /\ c.createdAt = AddedAt
  /\ last.op = "storage.addRepair" =>
       \E r \in Range(loadData(ls).repairs) :
         /\ r.id = last.id
         /\ Has(r, "receivedDate")
         /\ r.receivedDate = IF Has(last.arg, "receivedDate")
                               THEN last.arg.receivedDate ELSE AddedAt

WithoutRepairs(state) == [f \in DOMAIN state \ {"repairs"} |-> state[f]]

\* what one deleteRepair of either backend changes
DeleteRepairFrame ==
  /\ last'.op = "deleteRepair" =>
       /\ db'.customers = db.customers
       /\ db'.settings = db.settings
       /\ db'.repairs = IF last'.threw = None
                          THEN db.repairs \ {r \in db.repairs : r.id = Some(last'.id)}
                        ELSE db.repairs
       /\ Cardinality(db.repairs \ db'.repairs) <= 1
       /\ ls' = ls
  /\ last'.op = "storage.deleteRepair" =>
       LET old == loadData(ls)
           new == loadData(ls')
       IN /\ WithoutRepairs(new) = WithoutRepairs(old)
          /\ new.repairs = SelectSeq(old.repairs, LAMBDA r : r.id # last'.id)
          /\ Len(new.repairs) >= Len(old.repairs) - 1
          /\ ((\A k \in DOMAIN old.repairs : old.repairs[k].id # last'.id)
                => new = old)
          /\ db' = db

\* C33: Delete RepairJob, in the store and in the Local Mirror, removes the
\* repair with the given identifier and no other, leaves every customer and
\* the logo as they were, and changes nothing when no repair has that
\* identifier (or when the store's delete fails).
DeleteRepairRemovesOnlyThat == [][DeleteRepairFrame]_vars

\* a repair was deleted from a store that holds a logo, and the other repair
\* is still stored
RepairDeletedOtherAndLogoKept ==
  /\ last.op = "deleteRepair"
  /\ last.threw = None
  /\ Cardinality(db.repairs) = 1
  /\ db.settings # {}

\* the handlers whose refresh was issued, and the one that issued it last
Refreshed == {i \in DOMAIN tasks : tasks[i].refreshAt > 0}

LatestRefresh ==
  CHOOSE i \in Refreshed :
    \A j \in Refreshed : tasks[j].refreshAt <= tasks[i].refreshAt

\* C34: when no handler is at an await any more, the snapshot the page shows
\* is the result of the Fetch state that was issued last.
ShownIsLatestFetch ==
  (Refreshed # {} /\ \A i \in DOMAIN tasks : tasks[i].pc = "done") =>
    appData = tasks[LatestRefresh].ret[1]

\* a read that came back with an error the guard does not take for a missing
\* table
ReturnedOtherError(read) ==
  ~read.rejects /\ read.error # None /\ ~isTableMissingError(read.error)

FetchedList(k) == IF k = 1 THEN last.ret[1].customers ELSE last.ret[1].repairs

MissingCountIsZero ==
  (last.op \in {"addCustomer", "addRepair"} /\ last.calls # << >>
     /\ last.calls[1].count = None) =>
    LET id == FormatId(IF last.op = "addCustomer" THEN "C" ELSE "R",
                       ID_START_BASE + 1)
    IN /\ last.id = id
       /\ Len(last.calls) = 2
       /\ last.calls[1].verb = "count"
       /\ last.calls[2].verb = "insert"
       /\ last.calls[2].body.id = id
       /\ last.threw = last.calls[2].error

\* the count query of an Add Customer failed and its insert went through:
\* the new customer is C-001001
CountFailedInsertDone ==
  /\ last.op = "addCustomer"
  /\ last.calls[1].error # None
  /\ last.threw = None
  /\ last.ret[1].id = Some(<<"C", "-", "0", "0", "1", "0", "0", "1">>)

====
